---- MODULE Spec2Model ----
(***************************************************************************)
(* A model of github.com/creachadair/cookies: the bincookie container      *)
(* codec (File.WriteTo, ParseFile), and the same-site encodings of the     *)
(* bincookie, chromedb and firefox stores.                                 *)
(*                                                                         *)
(* Representation.  A byte buffer is a sequence over 0..255 (Go offsets    *)
(* are 0-based, sequence indexes 1-based).  A uint32 is the pair           *)
(* <<hi, lo>> of its 16-bit halves, so that every 32-bit value is in       *)
(* reach and additions wrap at 2^32.  A float64 is the sequence of its 64  *)
(* bits, most significant first.  A time.Time is [sec, nsec]: Unix seconds *)
(* and the nanoseconds within the second.                                  *)
(***************************************************************************)
EXTENDS Integers, Sequences, FiniteSets, TLC

VARIABLES
    f,       \* the *File the program holds
    orig,    \* the input f was parsed from, if it was parsed
    pre,     \* f as it was when the latest File.WriteTo was called
    data,    \* the byte buffer: output of WriteTo, input of ParseFile
    src,     \* where data comes from: written by WriteTo, or made outside
    g,       \* what the latest ParseFile returned
    op,      \* the latest operation
    stored,  \* a stored same-site value: [fmt, flags, col]
    given,   \* the cookies.SameSite last encoded into stored
    site,    \* the cookies.SameSite last decoded from stored
    ckey,    \* chromedb: the encryption key in use
    cval,    \* chromedb: the value given to the latest encryptValue
    packet,  \* chromedb: the buffer holding an encrypted value
    made,    \* chromedb: how packet came to be
    was,     \* chromedb: packet as it was when decryptValue was called
    dec,     \* chromedb: what the latest decryptValue returned
    blob,    \* bplist: the input of Parse
    failAt,  \* bplist: the handler call that reports an error (0: none)
    events,  \* bplist: the handler calls Parse made, in order
    perr,    \* bplist: what Parse returned
    stack,   \* bplist: the collections a running Parse is inside of
    store,   \* the cookies.Store in use
    prev,    \* store as it was when the latest Scan was called
    script,  \* what the ScanFunc does at each of its calls
    calls,   \* the cookies the latest Scan presented to the ScanFunc
    ret,     \* what the latest Scan returned
    disk,    \* the bytes Commit wrote to the file at the path of the Store
    commit,  \* the Commit calls: how many, the latest result and its I/O
    wash     \* washcookies: the rules, the cookie at hand, and the verdict

codecVars == <<f, orig, pre, data, src, g>>
siteVars == <<stored, given, site>>
cryptVars == <<ckey, cval, packet, made, was, dec>>
plistVars == <<blob, failAt, events, perr, stack>>
storeVars == <<store, prev, script, calls, ret, disk, commit>>

vars == <<codecVars, op, siteVars, cryptVars, plistVars, storeVars, wash>>

---------------------------------------------------------------------------
(* Bounds of the model. *)

\* most pages of a File drawn by Init
MaxPages == 2
\* most cookies of a File drawn by Init, over all its pages
MaxCookies == 2

---------------------------------------------------------------------------
(* Constants of package bincookie. *)

macEpoch == 978307200
fileMagic == <<99, 111, 111, 107>>
pageMagic == <<0, 0, 1, 0>>
fileTrailer == <<7, 23, 32, 5>>

DefaultPolicy ==
    <<98, 112, 108, 105, 115, 116, 48, 48, 209, 1, 2, 95, 16, 24>>
    \o <<78, 83, 72, 84, 84, 80, 67, 111, 111, 107, 105, 101>>
    \o <<65, 99, 99, 101, 112, 116, 80, 111, 108, 105, 99, 121>>
    \o <<16, 2, 8, 11, 38, 0, 0, 0, 0, 0, 0, 1, 1, 0, 0, 0, 0, 0, 0>>
    \o <<0, 3, 0, 0, 0, 0, 0, 0, 0, 0, 0, 0, 0, 0, 0, 0, 0, 40>>

FlagFlagsMask == 7
FlagSecure == 1
FlagHTTPOnly == 4
FlagSameSiteMask == 56
FlagSameSiteNone == 32
FlagSameSiteLax == 40
FlagSameSiteStrict == 56

---------------------------------------------------------------------------
(* uint32 arithmetic on <<hi, lo>> pairs of 16-bit halves. *)

Half == 256 * 256

\* uint32(n) for an int 0 <= n < 2^31
U32(n) == <<n \div Half, n % Half>>

\* a + b in uint32: the carry out of bit 31 is dropped
Add32(a, b) ==
    LET lo == a[2] + b[2]
        hi == a[1] + b[1] + (lo \div Half)
    IN  <<hi % Half, lo % Half>>

\* int(u) on a 64-bit platform.  Values of 2^30 and more are clamped to
\* 2^30: the model only compares them with buffer lengths, all far smaller.
ToInt(u) == IF u[1] < 16384 THEN u[1] * Half + u[2] ELSE 16384 * Half

\* x & y for n-bit x and y, halving the width
RECURSIVE AndBits(_, _, _)
AndBits(x, y, n) ==
    IF n = 1 THEN (x % 2) * (y % 2)
    ELSE LET h == n \div 2
         IN  AndBits(x % (2 ^ h), y % (2 ^ h), h)
             + (2 ^ h) * AndBits(x \div (2 ^ h), y \div (2 ^ h), n - h)

\* a & b, a | b and a &^ b in uint32
And32(a, b) == <<AndBits(a[1], b[1], 16), AndBits(a[2], b[2], 16)>>
Or32(a, b) ==
    <<a[1] + b[1] - AndBits(a[1], b[1], 16), a[2] + b[2] - AndBits(a[2], b[2], 16)>>
AndNot32(a, b) ==
    <<a[1] - AndBits(a[1], b[1], 16), a[2] - AndBits(a[2], b[2], 16)>>

---------------------------------------------------------------------------
(* float64: the IEEE-754 bits of an integer and the integer part of bits. *)

Bits(n, w) == [i \in 1..w |-> (n \div (2 ^ (w - i))) % 2]

\* the number whose binary digits are b, halving the sequence
RECURSIVE BitsVal(_)
BitsVal(b) ==
    IF Len(b) = 0 THEN 0
    ELSE IF Len(b) = 1 THEN b[1]
    ELSE LET h == Len(b) \div 2
         IN  BitsVal(SubSeq(b, 1, h)) * (2 ^ (Len(b) - h))
             + BitsVal(SubSeq(b, h + 1, Len(b)))

\* float64(k) for an int64 k with |k| < 2^31: sign, biased exponent, and
\* the 52-bit fraction (exact: k has fewer than 53 significant bits);
\* e is the position of the leading one bit of |k|.
Float64FromInt(k) ==
    IF k = 0 THEN [i \in 1..64 |-> 0]
    ELSE LET a == IF k < 0 THEN -k ELSE k
             e == CHOOSE x \in 0..30 : 2 ^ x <= a /\ a \div 2 < 2 ^ x
         IN  <<IF k < 0 THEN 1 ELSE 0>> \o Bits(e + 1023, 11)
             \o Bits(a - 2 ^ e, e) \o [i \in 1..(52 - e) |-> 0]

\* int64(x) for the float64 with these bits: truncation toward zero.  The
\* result is [far |-> FALSE, v |-> n], or [far |-> TRUE] when |x| >= 2^30
\* or x is an infinity or a NaN (outside what the model computes with).
Int64FromFloat(bits) ==
    LET int(E) ==
            IF E < 1023 THEN [far |-> FALSE, v |-> 0]
            ELSE IF E - 1023 >= 30 THEN [far |-> TRUE]
            ELSE [far |-> FALSE,
                  v |-> (IF bits[1] = 1 THEN -1 ELSE 1)
                        * (2 ^ (E - 1023) + BitsVal(SubSeq(bits, 13, E - 1011)))]
    IN  int(BitsVal(SubSeq(bits, 2, 12)))

---------------------------------------------------------------------------
(* Writing. *)

\* binary.LittleEndian.PutUint32 / binary.BigEndian.PutUint32
littleBytes(u) == <<u[2] % 256, u[2] \div 256, u[1] % 256, u[1] \div 256>>
bigBytes(u) == <<u[1] \div 256, u[1] % 256, u[2] \div 256, u[2] % 256>>

\* copy bs over buf at 0-based offset pos (PutUint32 on data[pos:])
PutBytes(buf, pos, bs) ==
    SubSeq(buf, 1, pos) \o bs \o SubSeq(buf, pos + Len(bs) + 1, Len(buf))

writeBig32(buf, u) == buf \o bigBytes(u)
writeLittle32(buf, u) == buf \o littleBytes(u)

writeFloat64(buf, bits) ==
    buf \o [j \in 1..8 |-> BitsVal(SubSeq(bits, 8 * (8 - j) + 1, 8 * (8 - j) + 8))]

\* addPadding: buf extended with n copies of s
addPadding(buf, s, n) == buf \o [i \in 1..(n * Len(s)) |-> s[((i - 1) % Len(s)) + 1]]

\* the "xxxx" placeholder of an offset or length still to be filled in
xxxx == <<120, 120, 120, 120>>

\* the loop of Cookie.WriteTo over url, name, path, value
RECURSIVE writeStrings(_, _, _)
writeStrings(buf, pos, strs) ==
    IF strs = <<>> THEN buf
    ELSE LET cur == Len(buf)
             patched == PutBytes(buf, pos, littleBytes(U32(cur)))
         IN  writeStrings(patched \o Head(strs) \o <<0>>, pos + 4, Tail(strs))

CookieWriteTo(c) ==
    LET b1 == writeLittle32(<<>>, U32(0)) \o c.unknown1
        b2 == writeLittle32(b1, c.Flags) \o c.unknown2
        pos == Len(b2)
        b3 == addPadding(addPadding(b2, xxxx, 4), <<0>>, 8)
        b4 == writeFloat64(b3, Float64FromInt(c.Expires.sec - macEpoch))
        b5 == writeFloat64(b4, Float64FromInt(c.Created.sec - macEpoch))
        \* the size of the record goes to its first four bytes
        sized(buf) == PutBytes(buf, 0, littleBytes(U32(Len(buf))))
    IN  sized(writeStrings(b5, pos, <<c.URL, c.Name, c.Path, c.Value>>))

\* the loop of Page.WriteTo over the cookies of the page
RECURSIVE writeCookies(_, _, _)
writeCookies(buf, pos, cs) ==
    IF cs = <<>> THEN buf
    ELSE LET next == Len(buf)
             patched == PutBytes(buf, pos, littleBytes(U32(next)))
         IN  writeCookies(patched \o CookieWriteTo(Head(cs)), pos + 4, Tail(cs))

PageWriteTo(p) ==
    LET offsets(buf) ==
            writeCookies(writeLittle32(addPadding(buf, xxxx, Len(p.Cookies)), U32(0)),
                         Len(buf), p.Cookies)
    IN  offsets(writeLittle32(pageMagic, U32(Len(p.Cookies))))

\* the loop of pageChecksum, sum += uint32(data[i]) for i = 0, 4, 8, ...:
\* the n terms from the k-th on, added pairwise (uint32 addition is
\* associative, so the sum is the loop's)
RECURSIVE sumEvery4th(_, _, _)
sumEvery4th(bs, k, n) ==
    IF n = 0 THEN U32(0)
    ELSE IF n = 1 THEN U32(bs[4 * k + 1])
    ELSE LET h == n \div 2
         IN  Add32(sumEvery4th(bs, k, h), sumEvery4th(bs, k + h, n - h))

\* a checksum over every byte of the page
pageChecksumEveryByte(bs) ==
    sumEvery4th([i \in 1..(4 * Len(bs)) |-> bs[((i - 1) \div 4) + 1]], 0, Len(bs))

pageChecksum(bs) == sumEvery4th(bs, 0, (Len(bs) + 3) \div 4)

\* a WriteTo that keeps its empty pages
fixPagesKeepEmpty(file) == file

fixPages(file) ==
    [file EXCEPT !.Pages = SelectSeq(file.Pages, LAMBDA p : Len(p.Cookies) # 0)]

\* the loop of File.WriteTo over the pages: [buf, checksum]
RECURSIVE writePages(_, _, _, _)
writePages(buf, pos, checksum, pages) ==
    LET page(buf1, nw) ==
            writePages(PutBytes(buf1, pos, bigBytes(U32(nw))), pos + 4,
                       Add32(checksum,
                             pageChecksum(SubSeq(buf1, Len(buf1) - nw + 1, Len(buf1)))),
                       Tail(pages))
        written(buf1) == page(buf1, Len(buf1) - Len(buf))
    IN  IF pages = <<>> THEN [buf |-> buf, checksum |-> checksum]
        ELSE written(buf \o PageWriteTo(Head(pages)))

\* a WriteTo that writes the Policy as it is, empty or not
FileWriteToNoDefault(file) ==
    LET policy(p) == writeBig32(<<>>, U32(Len(p))) \o p
        tail(fixed, w) ==
            [file |-> [fixed EXCEPT !.Checksum = w.checksum],
             out |-> writeBig32(w.buf, w.checksum) \o fileTrailer \o policy(fixed.Policy)]
        pages(fixed, buf) ==
            tail(fixed, writePages(addPadding(buf, xxxx, Len(fixed.Pages)), Len(buf),
                                   U32(0), fixed.Pages))
        header(fixed) == pages(fixed, writeBig32(fileMagic, U32(Len(fixed.Pages))))
    IN  header(fixPages(file))

\* File.WriteTo: [file |-> f afterwards, out |-> the bytes written]
FileWriteTo(file) ==
    LET policy(p) == writeBig32(<<>>, U32(Len(p))) \o p
        tail(fixed, w) ==
            [file |-> [fixed EXCEPT !.Checksum = w.checksum],
             out |-> writeBig32(w.buf, w.checksum) \o fileTrailer
                     \o policy(IF Len(fixed.Policy) = 0 THEN DefaultPolicy
                               ELSE fixed.Policy)]
        pages(fixed, buf) ==
            tail(fixed, writePages(addPadding(buf, xxxx, Len(fixed.Pages)), Len(buf),
                                   U32(0), fixed.Pages))
        header(fixed) == pages(fixed, writeBig32(fileMagic, U32(Len(fixed.Pages))))
    IN  header(fixPages(file))

---------------------------------------------------------------------------
(* Parsing.  A call returns [kind |-> "ok", ...], [kind |-> "error", msg]  *)
(* for a returned error, or [kind |-> "panic"] for a run-time panic (a     *)
(* slice expression out of range).                                         *)

Ok(v) == [kind |-> "ok", v |-> v]
Err(msg) == [kind |-> "error", msg |-> msg]
Panic == [kind |-> "panic"]

\* bytes.HasPrefix
HasPrefix(bs, prefix) ==
    Len(bs) >= Len(prefix) /\ SubSeq(bs, 1, Len(prefix)) = prefix

\* the Go slice expression bs[lo:hi], for 0 <= lo <= hi <= len(bs)
Slice(bs, lo, hi) == SubSeq(bs, lo + 1, hi)

bigUint32(bs, pos) ==
    IF pos + 4 > Len(bs) THEN Err("incomplete uint32")
    ELSE Ok(<<bs[pos + 1] * 256 + bs[pos + 2], bs[pos + 3] * 256 + bs[pos + 4]>>)

littleUint32(bs, pos) ==
    IF pos + 4 > Len(bs) THEN Err("incomplete uint32")
    ELSE Ok(<<bs[pos + 4] * 256 + bs[pos + 3], bs[pos + 2] * 256 + bs[pos + 1]>>)

\* math.Float64frombits(binary.LittleEndian.Uint64(bs[pos:]))
littleFloat64(bs, pos) ==
    IF pos + 8 > Len(bs) THEN Err("incomplete int64")
    ELSE Ok([i \in 1..64 |-> Bits(bs[pos + 8 - ((i - 1) \div 8)], 8)[((i - 1) % 8) + 1]])

\* the loop of nulString: pos stops at the first NUL byte, or at len(data)
nulString(bs) ==
    LET nuls == {i \in 1..Len(bs) : bs[i] = 0}
        pos == IF nuls = {} THEN Len(bs)
               ELSE (CHOOSE i \in nuls : \A j \in nuls : i <= j) - 1
    IN  SubSeq(bs, 1, pos)

\* a time read without the shift from the Mac epoch
timeFromFloatNoEpoch(bits) ==
    LET unix(n) == IF n.far THEN [sec |-> 0, nsec |-> 0, far |-> TRUE]
                   ELSE [sec |-> n.v, nsec |-> 0]
    IN  unix(Int64FromFloat(bits))

\* time.Unix(int64(x)+macEpoch, 0) for the float64 x with these bits.  A
\* value out of the model's integer range is kept as [far |-> TRUE].
timeFromFloat(bits) ==
    LET unix(n) == IF n.far THEN [sec |-> 0, nsec |-> 0, far |-> TRUE]
                   ELSE [sec |-> n.v + macEpoch, nsec |-> 0]
    IN  unix(Int64FromFloat(bits))

\* a parser that takes the strings one after another from offset 56, in
\* the order url, name, path, value, whatever the offsets say
parseCookieInOrder(bs) ==
    LET next(pos) == IF pos > Len(bs) THEN Len(bs)
                     ELSE pos + Len(nulString(Slice(bs, pos, Len(bs)))) + 1
        str(pos) == IF pos > Len(bs) THEN <<>> ELSE nulString(Slice(bs, pos, Len(bs)))
        cookie(flags, expires, created) ==
            IF flags.kind # "ok" THEN Err("invalid flags")
            ELSE IF expires.kind # "ok" THEN Err("invalid expiration time")
            ELSE IF created.kind # "ok" THEN Err("invalid created time")
            ELSE Ok([Flags |-> flags.v,
                     URL |-> str(56), Name |-> str(next(56)),
                     Path |-> str(next(next(56))), Value |-> str(next(next(next(56)))),
                     Expires |-> timeFromFloat(expires.v),
                     Created |-> timeFromFloat(created.v),
                     unknown1 |-> Slice(bs, 4, 8), unknown2 |-> Slice(bs, 12, 16)])
    IN  cookie(littleUint32(bs, 8), littleFloat64(bs, 40), littleFloat64(bs, 48))

parseCookie(bs) ==
    LET \* bs[int(pos):] panics when pos is past the end of bs
        InRange(p) == ToInt(p.v) <= Len(bs)
        str(p) == nulString(Slice(bs, ToInt(p.v), Len(bs)))
        cookie(flags, urlPos, namePos, pathPos, valuePos, expires, created) ==
            IF flags.kind # "ok" THEN Err("invalid flags")
            ELSE IF urlPos.kind # "ok" THEN Err("invalid URL offset")
            ELSE IF namePos.kind # "ok" THEN Err("invalid name offset")
            ELSE IF pathPos.kind # "ok" THEN Err("invalid path offset")
            ELSE IF valuePos.kind # "ok" THEN Err("invalid value offset")
            ELSE IF expires.kind # "ok" THEN Err("invalid expiration time")
            ELSE IF created.kind # "ok" THEN Err("invalid created time")
            ELSE IF ~(InRange(urlPos) /\ InRange(namePos)
                      /\ InRange(pathPos) /\ InRange(valuePos)) THEN Panic
            ELSE Ok([Flags |-> flags.v,
                     URL |-> str(urlPos), Name |-> str(namePos),
                     Path |-> str(pathPos), Value |-> str(valuePos),
                     Expires |-> timeFromFloat(expires.v),
                     Created |-> timeFromFloat(created.v),
                     unknown1 |-> Slice(bs, 4, 8), unknown2 |-> Slice(bs, 12, 16)])
    IN  cookie(littleUint32(bs, 8), littleUint32(bs, 16), littleUint32(bs, 20),
               littleUint32(bs, 24), littleUint32(bs, 28),
               littleFloat64(bs, 40), littleFloat64(bs, 48))

\* a parsePage loop that rejects a record whose size field is not the
\* header plus its four NUL-terminated strings
RECURSIVE parseCookiesStrict(_, _, _, _, _)
parseCookiesStrict(bs, cur, i, nc, cookies) ==
    LET used(c) == 56 + Len(c.URL) + Len(c.Name) + Len(c.Path) + Len(c.Value) + 4
        parsed(c, size) ==
            IF c.kind # "ok" THEN c
            ELSE IF used(c.v) # size THEN Err("cookie: size mismatch")
            ELSE parseCookiesStrict(bs, cur + 4, i + 1, nc, Append(cookies, c.v))
        record(off, end, size) ==
            IF ToInt(end) > Len(bs) THEN Err("cookie: incomplete data")
            ELSE IF ToInt(off) > ToInt(end) THEN Panic
            ELSE parsed(parseCookie(Slice(bs, ToInt(off), ToInt(end))), ToInt(size))
        sized(off, size) ==
            IF size.kind # "ok" THEN Err("cookie: incomplete uint32")
            ELSE record(off, Add32(off, size.v), size.v)
        at(off) ==
            IF off.kind # "ok" THEN off
            ELSE sized(off.v, littleUint32(bs, ToInt(off.v)))
    IN  IF i >= nc THEN [kind |-> "ok", cookies |-> cookies, cur |-> cur]
        ELSE at(littleUint32(bs, cur))

\* the loop of parsePage over the nc cookie offsets: the cookies and cur
RECURSIVE parseCookies(_, _, _, _, _)
parseCookies(bs, cur, i, nc, cookies) ==
    LET parsed(c) ==
            IF c.kind # "ok" THEN c
            ELSE parseCookies(bs, cur + 4, i + 1, nc, Append(cookies, c.v))
        record(off, end) ==
            IF ToInt(end) > Len(bs) THEN Err("cookie: incomplete data")
            \* bs[off : off+size] with off+size wrapped below off
            ELSE IF ToInt(off) > ToInt(end) THEN Panic
            ELSE parsed(parseCookie(Slice(bs, ToInt(off), ToInt(end))))
        sized(off, size) ==
            IF size.kind # "ok" THEN Err("cookie: incomplete uint32")
            ELSE record(off, Add32(off, size.v))
        at(off) ==
            IF off.kind # "ok" THEN off
            ELSE sized(off.v, littleUint32(bs, ToInt(off.v)))
    IN  IF i >= nc THEN [kind |-> "ok", cookies |-> cookies, cur |-> cur]
        ELSE at(littleUint32(bs, cur))

parsePage(bs) ==
    LET trailer(r, t) ==
            IF t.kind # "ok" \/ t.v # U32(0) THEN Err("invalid page trailer")
            ELSE Ok([Cookies |-> r.cookies])
        cookies(r) == IF r.kind # "ok" THEN r ELSE trailer(r, bigUint32(bs, r.cur))
        count(nc) ==
            IF nc.kind # "ok" THEN nc
            ELSE cookies(parseCookies(bs, 8, 0, ToInt(nc.v), <<>>))
    IN  IF ~HasPrefix(bs, pageMagic) THEN Err("invalid page magic")
        ELSE count(littleUint32(bs, 4))

\* the first loop of ParseFile: the numPages page sizes and cur.  The i-th
\* bigUint32 reads at cur + 4*i; the first one past the end of bs fails,
\* and there is one exactly when the last one is.
readSizes(bs, cur, numPages) ==
    IF numPages > 0 /\ cur + 4 * numPages > Len(bs) THEN Err("incomplete uint32")
    ELSE [kind |-> "ok", cur |-> cur + 4 * numPages,
          sizes |-> [i \in 1..numPages |-> ToInt(bigUint32(bs, cur + 4 * (i - 1)).v)]]

\* the second loop of ParseFile: the pages and cur
RECURSIVE readPages(_, _, _, _)
readPages(bs, cur, sizes, pages) ==
    LET parsed(page, size) ==
            IF page.kind = "panic" THEN page
            ELSE IF page.kind # "ok" THEN Err("parsing page")
            ELSE readPages(bs, cur + size, Tail(sizes), Append(pages, page.v))
        sized(size) ==
            IF cur + size > Len(bs) THEN Err("page truncated")
            ELSE parsed(parsePage(Slice(bs, cur, cur + size)), size)
    IN  IF sizes = <<>> THEN [kind |-> "ok", pages |-> pages, cur |-> cur]
        ELSE sized(Head(sizes))

\* a ParseFile tail that compares the checksum field with the checksum of
\* the pages it read
parseTrailerVerify(bs, pages, cur) ==
    LET policy(fcheck, plen, pos) ==
            IF plen.kind # "ok" THEN plen
            ELSE IF pos + ToInt(plen.v) > Len(bs) THEN Panic
            ELSE Ok([Pages |-> pages, Checksum |-> fcheck.v,
                     Policy |-> Slice(bs, pos, pos + ToInt(plen.v))])
        sum == writePages(<<>>, 0, U32(0), pages).checksum
        trailer(fcheck, cur2) ==
            IF fcheck.kind # "ok" THEN Err("invalid file checksum")
            ELSE IF fcheck.v # sum THEN Err("wrong file checksum")
            ELSE IF ~HasPrefix(Slice(bs, cur + 4, Len(bs)), fileTrailer)
                 THEN Err("invalid file trailer")
            ELSE IF cur2 < Len(bs) THEN policy(fcheck, bigUint32(bs, cur2), cur2 + 4)
            ELSE Ok([Pages |-> pages, Checksum |-> fcheck.v, Policy |-> <<>>])
    IN  trailer(bigUint32(bs, cur), cur + 4 + Len(fileTrailer))

\* the tail of ParseFile, from the checksum on
parseTrailer(bs, pages, cur) ==
    LET policy(fcheck, plen, pos) ==
            IF plen.kind # "ok" THEN plen
            \* bs[cur:end] with end past the buffer
            ELSE IF pos + ToInt(plen.v) > Len(bs) THEN Panic
            ELSE Ok([Pages |-> pages, Checksum |-> fcheck.v,
                     Policy |-> Slice(bs, pos, pos + ToInt(plen.v))])
        trailer(fcheck, cur2) ==
            IF fcheck.kind # "ok" THEN Err("invalid file checksum")
            ELSE IF ~HasPrefix(Slice(bs, cur + 4, Len(bs)), fileTrailer)
                 THEN Err("invalid file trailer")
            ELSE IF cur2 < Len(bs) THEN policy(fcheck, bigUint32(bs, cur2), cur2 + 4)
            ELSE Ok([Pages |-> pages, Checksum |-> fcheck.v, Policy |-> <<>>])
    IN  trailer(bigUint32(bs, cur), cur + 4 + Len(fileTrailer))

ParseFile(bs) ==
    LET pages(p) == IF p.kind # "ok" THEN p ELSE parseTrailer(bs, p.pages, p.cur)
        sizes(s) == IF s.kind # "ok" THEN s ELSE pages(readPages(bs, s.cur, s.sizes, <<>>))
        count(numPages) ==
            IF numPages.kind # "ok" THEN numPages
            ELSE sizes(readSizes(bs, 8, ToInt(numPages.v)))
    IN  IF ~HasPrefix(bs, fileMagic) THEN Err("invalid file magic")
        ELSE count(bigUint32(bs, 4))

---------------------------------------------------------------------------
(* Same-site encodings: bincookie Flags, the Chrome samesite column and    *)
(* the Firefox sameSite column.  A cookies.SameSite is named by its        *)
(* enumerator.                                                             *)

SameSite == {"Unknown", "Lax", "Strict", "None"}

\* Cookie.sameSite
sameSite(flags) ==
    LET m == And32(flags, U32(FlagSameSiteMask))
    IN  IF m = U32(FlagSameSiteNone) THEN "None"
        ELSE IF m = U32(FlagSameSiteLax) THEN "Lax"
        ELSE IF m = U32(FlagSameSiteStrict) THEN "Strict"
        ELSE "Unknown"

\* a setSameSite that leaves the old same-site bits in place
setSameSiteNoClear(flags, s) ==
    IF s = "None" THEN Or32(flags, U32(FlagSameSiteNone))
    ELSE IF s = "Lax" THEN Or32(flags, U32(FlagSameSiteLax))
    ELSE IF s = "Strict" THEN Or32(flags, U32(FlagSameSiteStrict))
    ELSE flags

\* Cookie.setSameSite: the Flags afterwards
setSameSite(flags, s) ==
    LET cleared == AndNot32(flags, U32(FlagSameSiteMask))
    IN  IF s = "None" THEN Or32(cleared, U32(FlagSameSiteNone))
        ELSE IF s = "Lax" THEN Or32(cleared, U32(FlagSameSiteLax))
        ELSE IF s = "Strict" THEN Or32(cleared, U32(FlagSameSiteStrict))
        ELSE cleared

\* package chromedb
chromedbDecodeSitePolicy(v) ==
    IF v = 0 THEN "None"
    ELSE IF v = 1 THEN "Lax"
    ELSE IF v = 2 THEN "Strict"
    ELSE "Unknown"

chromedbEncodeSitePolicy(p) ==
    IF p = "None" THEN 0
    ELSE IF p = "Lax" THEN 1
    ELSE IF p = "Strict" THEN 2
    ELSE -1

\* package firefox
firefoxDecodeSitePolicy(ss) ==
    IF ss = 0 THEN "None"
    ELSE IF ss = 1 THEN "Lax"
    ELSE IF ss = 2 THEN "Strict"
    ELSE "Unknown"

\* an encoding that stores Unknown as -1, as package chromedb does
firefoxEncodeUnspecified(ss) ==
    IF ss = "None" THEN 0
    ELSE IF ss = "Lax" THEN 1
    ELSE IF ss = "Strict" THEN 2
    ELSE -1

firefoxEncodeSitePolicy(ss) ==
    IF ss = "Lax" THEN 1
    ELSE IF ss = "Strict" THEN 2
    ELSE 0

---------------------------------------------------------------------------
(* The layout of a file, read off the package documentation ("File        *)
(* format"): where the pages, the records and the trailer of a buffer lie. *)
(* Used to make input that another producer wrote, and to state what a     *)
(* written buffer holds.  The numbers read here are small.                 *)

be32(bs, pos) ==
    ((bs[pos + 1] * 256 + bs[pos + 2]) * 256 + bs[pos + 3]) * 256 + bs[pos + 4]
le32(bs, pos) ==
    ((bs[pos + 4] * 256 + bs[pos + 3]) * 256 + bs[pos + 2]) * 256 + bs[pos + 1]

pageCount(bs) == be32(bs, 4)
pageSize(bs, k) == be32(bs, 8 + 4 * (k - 1))

\* offset of page k (from 1); for k = pageCount+1 the offset of the checksum
RECURSIVE pageOffset(_, _)
pageOffset(bs, k) ==
    IF k = 1 THEN 8 + 4 * pageCount(bs)
    ELSE pageOffset(bs, k - 1) + pageSize(bs, k - 1)

pageBytes(bs, k) == Slice(bs, pageOffset(bs, k), pageOffset(bs, k) + pageSize(bs, k))
checksumOffset(bs) == pageOffset(bs, pageCount(bs) + 1)

\* within a page: the cookie count, and the offset and size of record i
cookieCount(page) == le32(page, 4)
recordOffset(page, i) == le32(page, 8 + 4 * (i - 1))
recordSize(page, i) == le32(page, recordOffset(page, i))

\* A cookie record as another producer may lay it out: the fixed header,
\* then the four strings in the order given (order[j] is the j-th string
\* laid down: 1 url, 2 name, 3 path, 4 value), each after gap filler bytes.
RECURSIVE layStrings(_, _, _, _)
layStrings(buf, strs, order, gap) ==
    IF order = <<>> THEN buf
    ELSE LET filled == addPadding(buf, <<255>>, gap)
             slot == 16 + 4 * (Head(order) - 1)
             patched == PutBytes(filled, slot, littleBytes(U32(Len(filled))))
         IN  layStrings(patched \o strs[Head(order)] \o <<0>>, strs, Tail(order), gap)

\* a file of one page holding one such record of the cookie c, ending at
\* the file trailer
layFile(c, order, gap) ==
    LET b1 == littleBytes(U32(0)) \o c.unknown1 \o littleBytes(c.Flags) \o c.unknown2
        b2 == addPadding(addPadding(b1, xxxx, 4), <<0>>, 8)
        b3 == writeFloat64(b2, Float64FromInt(c.Expires.sec - macEpoch))
        b4 == writeFloat64(b3, Float64FromInt(c.Created.sec - macEpoch))
        b5 == layStrings(b4, <<c.URL, c.Name, c.Path, c.Value>>, order, gap)
        record == PutBytes(b5, 0, littleBytes(U32(Len(b5))))
        page == pageMagic \o littleBytes(U32(1)) \o littleBytes(U32(16))
                \o littleBytes(U32(0)) \o record
    IN  fileMagic \o bigBytes(U32(1)) \o bigBytes(U32(Len(page))) \o page
        \o bigBytes(pageChecksum(page)) \o fileTrailer

---------------------------------------------------------------------------
(* The files and inputs the model draws. *)

Time(s, ns) == [sec |-> s, nsec |-> ns]

\* three cookies: a plain one, as TestRoundTrip builds them; one with a
\* NUL byte inside its Value, an empty URL, flag bits 1 and 31 set besides
\* HTTPOnly and SameSite=Lax, and unknown bytes set; one with times before
\* 2001 and a fraction of a second
Cookies ==
    <<[Flags |-> U32(FlagSecure), URL |-> <<97, 46, 98>>, Name |-> <<110>>,
       Path |-> <<47>>, Value |-> <<118, 49>>,
       Expires |-> Time(macEpoch + 259200, 0), Created |-> Time(macEpoch + 5, 0),
       unknown1 |-> <<0, 0, 0, 0>>, unknown2 |-> <<0, 0, 0, 0>>],
      [Flags |-> <<32768, 46>>, URL |-> <<>>, Name |-> <<107>>,
       Path |-> <<47, 112>>, Value |-> <<120, 0, 121>>,
       Expires |-> Time(macEpoch + 60, 0), Created |-> Time(macEpoch + 1, 0),
       unknown1 |-> <<1, 0, 0, 0>>, unknown2 |-> <<0, 0, 0, 2>>],
      [Flags |-> U32(0), URL |-> <<99>>, Name |-> <<>>,
       Path |-> <<47>>, Value |-> <<>>,
       Expires |-> Time(macEpoch - 3, 500000000), Created |-> Time(macEpoch, 0),
       unknown1 |-> <<0, 0, 0, 0>>, unknown2 |-> <<0, 0, 0, 0>>]>>

RECURSIVE sumOf(_)
sumOf(sizes) == IF sizes = <<>> THEN 0 ELSE Head(sizes) + sumOf(Tail(sizes))

\* pages of these sizes, the three cookies dealt to them in turn, in
\* order, starting at the start-th
pagesOf(start, sizes) ==
    LET before(k) == sumOf(SubSeq(sizes, 1, k - 1))
    IN  [k \in 1..Len(sizes) |->
            [Cookies |-> [i \in 1..sizes[k] |->
                             Cookies[((start + before(k) + i - 2) % 3) + 1]]]]

\* the Files a caller builds: at most MaxPages pages, some of them empty,
\* at most MaxCookies cookies in all, the Checksum not yet computed,
\* with a policy of the caller's, and with none
FileSet ==
    LET SeqsUpTo(S, n) == UNION {[1..k -> S] : k \in 0..n}
    IN  {[Pages |-> pagesOf(start, sizes), Checksum |-> U32(0), Policy |-> po] :
            start \in 1..3,
            sizes \in {x \in SeqsUpTo(0..MaxCookies, MaxPages) :
                          sumOf(x) <= MaxCookies},
            po \in {<<>>, <<98, 112, 0, 7>>}}

NoResult == [kind |-> "none"]

\* the parts of the state a run does not use stay as they are here; used
\* names the one part the run does use
Idle(used) ==
    /\ IF used = "codec" THEN TRUE
       ELSE /\ f = [Pages |-> <<>>, Checksum |-> U32(0), Policy |-> <<>>]
            /\ pre = f
            /\ orig = NoResult
            /\ data = <<>>
            /\ src = NoResult
            /\ g = NoResult
    /\ IF used = "site" THEN TRUE
       ELSE /\ stored = [fmt |-> "none", flags |-> <<0, 0>>, col |-> 0]
            /\ given = "none"
            /\ site = "none"
    /\ IF used = "crypt" THEN TRUE
       ELSE /\ ckey = <<>>
            /\ cval = <<>>
            /\ packet = <<>>
            /\ made = [kind |-> "none", key |-> <<>>]
            /\ was = <<>>
            /\ dec = NoResult
    /\ IF used = "plist" THEN TRUE
       ELSE /\ blob = <<>>
            /\ failAt = 0
            /\ events = <<>>
            /\ perr = NoResult
            /\ stack = <<>>
    /\ IF used = "store" THEN TRUE
       ELSE /\ store = [kind |-> "none"]
            /\ prev = [kind |-> "none"]
            /\ script = <<>>
            /\ calls = <<>>
            /\ ret = NoResult
            /\ disk = <<>>
            /\ commit = [n |-> 0, res |-> NoResult, io |-> "none"]
    /\ IF used = "wash" THEN TRUE ELSE wash = NoResult

---------------------------------------------------------------------------
(* The codec: a File is written, the bytes are parsed, a parsed File is    *)
(* kept (Open) and written again; and bytes are changed or made outside.   *)

Init ==
    /\ f \in FileSet
    /\ pre = f
    /\ orig = NoResult
    /\ data = <<>>
    /\ src = NoResult
    /\ g = NoResult
    /\ op = "init"
    /\ Idle("codec")

\* f.WriteTo(&buf)
WriteTo ==
    LET w == FileWriteTo(f)
    IN  /\ pre' = f
        /\ f' = w.file
        /\ data' = w.out
        /\ src' = [kind |-> "WriteTo"]
        /\ g' = NoResult
        /\ op' = "WriteTo"
        /\ UNCHANGED <<orig, stored, given, site, cryptVars, plistVars, storeVars, wash>>

\* g, err := ParseFile(data)
DoParseFile ==
    /\ src.kind # "none"
    /\ g' = ParseFile(data)
    /\ op' = "ParseFile"
    /\ UNCHANGED <<f, orig, pre, data, src, stored, given, site, cryptVars, plistVars, storeVars, wash>>

\* Open(path), the file holding data: ParseFile, and on success a Store
\* that holds the parsed File.  A run opens one Store.
Open ==
    LET opened(r) ==
            /\ r.kind = "ok"
            /\ f' = r.v
            /\ g' = r
    IN  /\ src.kind # "none"
        /\ orig.kind = "none"
        /\ opened(ParseFile(data))
        /\ orig' = [kind |-> "parsed", bytes |-> data, src |-> src]
        /\ op' = "Open"
        /\ UNCHANGED <<pre, data, src, stored, given, site, cryptVars, plistVars, storeVars, wash>>

\* the bytes a first WriteTo produced, before anything else touched them
Fresh == op = "WriteTo" /\ orig.kind = "none"

\* another value in the checksum field of the written bytes
EditChecksum(v) ==
    /\ Fresh
    /\ data' = PutBytes(data, checksumOffset(data), bigBytes(v))
    /\ src' = [kind |-> "checksum", v |-> v]
    /\ op' = "edit"
    /\ UNCHANGED <<f, orig, pre, g, stored, given, site, cryptVars, plistVars, storeVars, wash>>

\* the written bytes cut short: right after the file trailer ("nopolicy"),
\* or before their last byte ("short")
Truncate(cut) ==
    /\ Fresh
    /\ data' = IF cut = "nopolicy"
               THEN SubSeq(data, 1, (checksumOffset(data) + 4) + 4)
               ELSE SubSeq(data, 1, Len(data) - 1)
    /\ src' = [kind |-> cut]
    /\ op' = "edit"
    /\ UNCHANGED <<f, orig, pre, g, stored, given, site, cryptVars, plistVars, storeVars, wash>>

\* another size field in record i of page k of the written bytes: the
\* bytes the record occupies plus d, or the absolute size n
EditSize(k, i, n) ==
    /\ Fresh
    /\ k \in 1..pageCount(data)
    /\ i \in 1..cookieCount(pageBytes(data, k))
    /\ LET page == pageBytes(data, k)
           at == pageOffset(data, k) + recordOffset(page, i)
       IN  /\ n # recordSize(page, i)
           /\ data' = PutBytes(data, at, littleBytes(U32(n)))
           /\ src' = [kind |-> "size", page |-> k, record |-> i, size |-> n,
                      was |-> recordSize(page, i),
                      room |-> Len(page) - recordOffset(page, i)]
    /\ op' = "edit"
    /\ UNCHANGED <<f, orig, pre, g, stored, given, site, cryptVars, plistVars, storeVars, wash>>

\* input from another producer: one record, its strings in any order
Foreign(c, order, gap) ==
    /\ op = "init"
    /\ f.Pages = <<>> /\ f.Policy = <<>>
    /\ data' = layFile(c, order, gap)
    /\ src' = [kind |-> "layout", cookie |-> c, order |-> order, gap |-> gap]
    /\ op' = "edit"
    /\ UNCHANGED <<f, orig, pre, g, stored, given, site, cryptVars, plistVars, storeVars, wash>>

Next ==
    \/ WriteTo
    \/ DoParseFile
    \/ Open
    \/ \E v \in {U32(0), <<65535, 65535>>} : EditChecksum(v)
    \/ \E cut \in {"nopolicy", "short"} : Truncate(cut)
    \/ \E k \in 1..MaxPages, i \in 1..MaxCookies, d \in {-1, 1} :
          /\ Fresh /\ k <= pageCount(data) /\ i <= cookieCount(pageBytes(data, k))
          /\ EditSize(k, i, recordSize(pageBytes(data, k), i) + d)
    \/ \E k \in 1..MaxPages, i \in 1..MaxCookies, n \in {55, 56, 65536} :
          EditSize(k, i, n)
    \/ \E n \in 1..3, gap \in 0..1 :
         \E order \in {o \in [1..4 -> 1..4] :
                          \A i, j \in 1..4 : o[i] = o[j] => i = j} :
            Foreign(Cookies[n], order, gap)

Spec == Init /\ [][Next]_vars

---------------------------------------------------------------------------
(* The same-site encodings on their own: a value is stored in one of the   *)
(* three formats and read back.                                            *)

\* Flags values: every pattern of the low six bits, under three settings
\* of the bits above them, and two settings of the high half; and the
\* values -1..3 of the samesite / sameSite integer columns
StoredSet ==
    {[fmt |-> "bincookie", flags |-> <<hi, lo + up>>, col |-> 0] :
        hi \in {0, 65535}, lo \in 0..63, up \in {0, 64, 65472}}
    \cup {[fmt |-> "chromedb", flags |-> U32(0), col |-> n] : n \in -1..3}
    \cup {[fmt |-> "firefox", flags |-> U32(0), col |-> n] : n \in -1..3}

SiteInit ==
    /\ stored \in StoredSet
    /\ given = "none"
    /\ site = "none"
    /\ op = "init"
    /\ Idle("site")

\* c.setSameSite(s)
SetSameSite(s) ==
    /\ stored.fmt = "bincookie"
    /\ stored' = [stored EXCEPT !.flags = setSameSite(stored.flags, s)]
    /\ given' = s
    /\ site' = "none"
    /\ op' = "set"
    /\ UNCHANGED <<f, orig, pre, data, src, g, cryptVars, plistVars, storeVars, wash>>

\* c.sameSite()
GetSameSite ==
    /\ stored.fmt = "bincookie"
    /\ site' = sameSite(stored.flags)
    /\ op' = "get"
    /\ UNCHANGED <<f, orig, pre, data, src, g, stored, given, cryptVars, plistVars, storeVars, wash>>

\* chromedb writeCookie: $samesite is encodeSitePolicy(c.SameSite)
ChromeWrite(s) ==
    /\ stored.fmt = "chromedb"
    /\ stored' = [stored EXCEPT !.col = chromedbEncodeSitePolicy(s)]
    /\ given' = s
    /\ site' = "none"
    /\ op' = "set"
    /\ UNCHANGED <<f, orig, pre, data, src, g, cryptVars, plistVars, storeVars, wash>>

\* chromedb readCookies: SameSite is decodeSitePolicy of the samesite column
ChromeRead ==
    /\ stored.fmt = "chromedb"
    /\ site' = chromedbDecodeSitePolicy(stored.col)
    /\ op' = "get"
    /\ UNCHANGED <<f, orig, pre, data, src, g, stored, given, cryptVars, plistVars, storeVars, wash>>

\* firefox write: the sameSite column is encodeSitePolicy(c.SameSite)
FirefoxWrite(s) ==
    /\ stored.fmt = "firefox"
    /\ stored' = [stored EXCEPT !.col = firefoxEncodeSitePolicy(s)]
    /\ given' = s
    /\ site' = "none"
    /\ op' = "set"
    /\ UNCHANGED <<f, orig, pre, data, src, g, cryptVars, plistVars, storeVars, wash>>

\* firefox Scan: SameSite is decodeSitePolicy of the sameSite column
FirefoxRead ==
    /\ stored.fmt = "firefox"
    /\ site' = firefoxDecodeSitePolicy(stored.col)
    /\ op' = "get"
    /\ UNCHANGED <<f, orig, pre, data, src, g, stored, given, cryptVars, plistVars, storeVars, wash>>

SiteNext ==
    \/ \E s \in SameSite : SetSameSite(s)
    \/ GetSameSite
    \/ \E s \in SameSite : ChromeWrite(s)
    \/ ChromeRead
    \/ \E s \in SameSite : FirefoxWrite(s)
    \/ FirefoxRead

SpecSite == SiteInit /\ [][SiteNext]_vars

---------------------------------------------------------------------------
(* Properties of the codec, under Spec.  In a state reached by WriteTo,    *)
(* pre is the File before the call, f the File after it and data the bytes *)
(* written; after ParseFile, g is the result for data, and src tells how   *)
(* data came about.                                                        *)

AllNonEmpty(file) == \A k \in 1..Len(file.Pages) : file.Pages[k].Cookies # <<>>

\* the pages that hold at least one cookie, in order
RECURSIVE NonEmptyPages(_)
NonEmptyPages(pages) ==
    IF pages = <<>> THEN <<>>
    ELSE (IF Head(pages).Cookies = <<>> THEN <<>> ELSE <<Head(pages)>>)
         \o NonEmptyPages(Tail(pages))

\* the string s cut before its first NUL byte
RECURSIVE UpToNul(_)
UpToNul(s) ==
    IF s = <<>> \/ Head(s) = 0 THEN <<>> ELSE <<Head(s)>> \o UpToNul(Tail(s))

\* the bytes of rec from the 0-based offset pos up to the first NUL byte
RECURSIVE StringAt(_, _)
StringAt(rec, pos) ==
    IF pos >= Len(rec) \/ rec[pos + 1] = 0 THEN <<>>
    ELSE <<rec[pos + 1]>> \o StringAt(rec, pos + 1)

\* cookies c and d agree on the fields the File exports
SameCookie(c, d) ==
    /\ c.Flags = d.Flags
    /\ c.URL = d.URL /\ c.Name = d.Name /\ c.Path = d.Path /\ c.Value = d.Value
    /\ c.Expires = d.Expires /\ c.Created = d.Created

\* the cookie as the format holds it: strings end at a NUL byte, times
\* are whole seconds
AsStored(c) ==
    [c EXCEPT !.URL = UpToNul(c.URL), !.Name = UpToNul(c.Name),
              !.Path = UpToNul(c.Path), !.Value = UpToNul(c.Value),
              !.Expires = Time(c.Expires.sec, 0), !.Created = Time(c.Created.sec, 0)]

\* the same pages in order, the same cookies in order
SamePages(ps, qs) ==
    /\ Len(ps) = Len(qs)
    /\ \A k \in 1..Len(ps) :
          /\ Len(ps[k].Cookies) = Len(qs[k].Cookies)
          /\ \A i \in 1..Len(ps[k].Cookies) :
                SameCookie(ps[k].Cookies[i], qs[k].Cookies[i])

\* as SamePages, with the cookies of qs as the format holds them
SamePagesAsStored(ps, qs) ==
    /\ Len(ps) = Len(qs)
    /\ \A k \in 1..Len(ps) :
          /\ Len(ps[k].Cookies) = Len(qs[k].Cookies)
          /\ \A i \in 1..Len(ps[k].Cookies) :
                SameCookie(ps[k].Cookies[i], AsStored(qs[k].Cookies[i]))

\* C1 as stated: for a File whose pages all hold a cookie, ParseFile of the
\* bytes WriteTo wrote succeeds with the same pages, cookies and Policy,
\* and the fresh Checksum.
RoundTripEqual ==
    (op = "ParseFile" /\ src.kind = "WriteTo" /\ AllNonEmpty(pre)) =>
        /\ g.kind = "ok"
        /\ SamePages(g.v.Pages, pre.Pages)
        /\ g.v.Policy = pre.Policy
        /\ g.v.Checksum = f.Checksum

\* C1 amended: for a File whose pages all hold a cookie, ParseFile of the
\* bytes WriteTo wrote succeeds with the same pages and cookies in order,
\* each cookie with equal Flags, each string cut before its first NUL byte
\* and each time cut to whole seconds; the Policy is the File's, or
\* DefaultPolicy when the File's is empty; the Checksum is the fresh one.
RoundTripAsStored ==
    (op = "ParseFile" /\ src.kind = "WriteTo" /\ AllNonEmpty(pre)) =>
        /\ g.kind = "ok"
        /\ SamePagesAsStored(g.v.Pages, pre.Pages)
        /\ g.v.Policy = (IF pre.Policy = <<>> THEN DefaultPolicy ELSE pre.Policy)
        /\ g.v.Checksum = f.Checksum

\* C1 witness: a File with an empty Policy, a NUL byte in a Value and half
\* a second in a time was written and parsed
RoundTripAsStoredWitness ==
    /\ op = "ParseFile" /\ src.kind = "WriteTo" /\ g.kind = "ok"
    /\ pre.Pages = <<[Cookies |-> <<Cookies[2], Cookies[3]>>]>>
    /\ pre.Policy = <<>>

\* C2 as stated: the bytes WriteTo wrote, parsed and written again with no
\* edits, come out the same.
ReserializeIdentical ==
    (op = "WriteTo" /\ orig.kind = "parsed" /\ orig.src.kind = "WriteTo") =>
        data = orig.bytes

\* C3: WriteTo writes as many pages as pre has pages with a cookie, each
\* with the cookie count of that page in order and none with zero, and
\* leaves f with those pages; parsing the bytes gives those pages again.
EmptyPagesDropped ==
    /\ op = "WriteTo" =>
          /\ pageCount(data) = Len(NonEmptyPages(pre.Pages))
          /\ Len(f.Pages) = pageCount(data)
          /\ \A k \in 1..pageCount(data) :
                /\ cookieCount(pageBytes(data, k)) > 0
                /\ cookieCount(pageBytes(data, k))
                      = Len(NonEmptyPages(pre.Pages)[k].Cookies)
    /\ (op = "ParseFile" /\ src.kind = "WriteTo") =>
          /\ g.kind = "ok"
          /\ SamePagesAsStored(g.v.Pages, NonEmptyPages(pre.Pages))

\* C3 witness: a File with an empty page and then a page of two cookies
\* was written and parsed to one page of two cookies
EmptyPagesDroppedWitness ==
    /\ op = "ParseFile" /\ src.kind = "WriteTo" /\ g.kind = "ok"
    /\ Len(pre.Pages) = 2
    /\ pre.Pages[1].Cookies = <<>> /\ Len(pre.Pages[2].Cookies) = 2
    /\ Len(g.v.Pages) = 1 /\ Len(g.v.Pages[1].Cookies) = 2

\* the sum of the bytes of page at the offsets lo..hi that are multiples of 4
RECURSIVE SumEveryFourth(_, _, _)
SumEveryFourth(page, lo, hi) ==
    IF lo > hi THEN 0
    ELSE IF lo = hi THEN (IF lo % 4 = 0 THEN page[lo + 1] ELSE 0)
    ELSE SumEveryFourth(page, lo, (lo + hi) \div 2)
         + SumEveryFourth(page, ((lo + hi) \div 2) + 1, hi)

\* that sum over the first k pages of the written bytes bs
RECURSIVE SumOfPages(_, _)
SumOfPages(bs, k) ==
    IF k = 0 THEN 0
    ELSE SumOfPages(bs, k - 1) + SumEveryFourth(pageBytes(bs, k), 0, pageSize(bs, k) - 1)

\* C4: after WriteTo, f.Checksum and the big-endian checksum field of the
\* bytes both are the sum, over the written pages, of the bytes at offsets
\* 0, 4, 8, ... of the page, whatever f.Checksum was before.  (The sums of
\* the model stay below 2^31.)
ChecksumLaw ==
    op = "WriteTo" =>
        /\ f.Checksum = U32(SumOfPages(data, pageCount(data)))
        /\ be32(data, checksumOffset(data)) = SumOfPages(data, pageCount(data))

\* C4 witness: a File of two pages was written whose Checksum, read from
\* a checksum field of all ones, was not the sum
ChecksumLawWitness ==
    /\ op = "WriteTo" /\ Len(f.Pages) = 2
    /\ pre.Checksum = <<65535, 65535>> /\ f.Checksum # pre.Checksum

\* C5: written bytes with another value in the checksum field parse, and
\* the File's Checksum is the value of the field.
ChecksumNotVerified ==
    (op = "ParseFile" /\ src.kind = "checksum") =>
        g.kind = "ok" /\ g.v.Checksum = src.v

\* C5 witness: bytes with cookies and a checksum field of all ones, which
\* is not their checksum, were parsed
ChecksumNotVerifiedWitness ==
    /\ op = "ParseFile" /\ src.kind = "checksum" /\ g.kind = "ok"
    /\ src.v = <<65535, 65535>> /\ f.Checksum # src.v /\ f.Pages # <<>>

OffsetsFollowed ==
    (op = "ParseFile" /\ src.kind = "layout") =>
        /\ g.kind = "ok"
        /\ LET page == pageBytes(data, 1)
               rec == Slice(page, recordOffset(page, 1),
                            recordOffset(page, 1) + recordSize(page, 1))
               c == g.v.Pages[1].Cookies[1]
           IN  /\ c.URL = StringAt(rec, le32(rec, 16))
               /\ c.Name = StringAt(rec, le32(rec, 20))
               /\ c.Path = StringAt(rec, le32(rec, 24))
               /\ c.Value = StringAt(rec, le32(rec, 28))
               /\ SameCookie(c, AsStored(src.cookie))

\* C7 witness: a record with the strings in the order value, name, url,
\* path, each after a gap, was parsed
OffsetsFollowedWitness ==
    /\ op = "ParseFile" /\ src.kind = "layout" /\ g.kind = "ok"
    /\ src.order = <<4, 2, 1, 3>> /\ src.gap = 1 /\ src.cookie = Cookies[1]

\* C8: bytes that end at the file trailer parse to a File with an empty
\* Policy; WriteTo writes, after the trailer, the length and the bytes of
\* DefaultPolicy for a File with an empty Policy, and of the Policy itself
\* otherwise.
PolicyDefaulting ==
    /\ (op = "ParseFile" /\ src.kind = "nopolicy") =>
          g.kind = "ok" /\ g.v.Policy = <<>>
    /\ op = "WriteTo" =>
          /\ Slice(data, (checksumOffset(data) + 4), (checksumOffset(data) + 4) + 4) = fileTrailer
          /\ Slice(data, (checksumOffset(data) + 4) + 4, Len(data))
                = (IF pre.Policy = <<>>
                   THEN <<0, 0, 0, Len(DefaultPolicy)>> \o DefaultPolicy
                   ELSE <<0, 0, 0, Len(pre.Policy)>> \o pre.Policy)

\* C8 witness: bytes cut after the trailer were parsed and opened, and the
\* File, its Policy empty, was written
PolicyDefaultingWitness ==
    /\ op = "WriteTo" /\ orig.kind = "parsed" /\ orig.src.kind = "nopolicy"
    /\ pre.Policy = <<>> /\ pre.Pages # <<>>

\* C23 as stated: whatever the input bytes, ParseFile returns a File or an
\* error: a buffer cut short, a record size that does not fit and a string
\* offset past the end of its record are reported as errors, and no slice
\* expression is out of range.
ParseFileNeverPanics ==
    (op = "ParseFile") => g.kind \in {"ok", "error"}

---------------------------------------------------------------------------
(* Properties of the same-site encodings, under SpecSite. *)

\* the three bits of Flags under the mask 0x38, in place
MaskBits(flags) == ((flags[2] \div 8) % 8) * 8

\* C9: in the bincookie Flags, whatever the Flags were before, setting the
\* same-site field to None, Lax or Strict stores 0x20, 0x28 or 0x38 under
\* the mask 0x38 and reading it back returns the value set; and a read
\* returns Unknown exactly for the other bit patterns under the mask.
SameSiteBitsRoundTrip ==
    stored.fmt = "bincookie" =>
        /\ given = "None" => MaskBits(stored.flags) = 32
        /\ given = "Lax" => MaskBits(stored.flags) = 40
        /\ given = "Strict" => MaskBits(stored.flags) = 56
        /\ (op = "get" /\ given \in {"None", "Lax", "Strict"}) => site = given
        /\ op = "get" =>
              (site = "Unknown" <=> MaskBits(stored.flags) \notin {32, 40, 56})

\* C9 witness: Lax was set over Flags with every bit set, and read back
SameSiteBitsRoundTripWitness ==
    /\ stored.fmt = "bincookie" /\ op = "get"
    /\ given = "Lax" /\ site = "Lax"
    /\ stored.flags = <<65535, 65519>>

\* C10 as stated: in each of the three formats, Unknown that was encoded
\* decodes as Unknown.
UnknownRoundTripsEverywhere ==
    (op = "get" /\ given = "Unknown") => site = "Unknown"

\* C10 amended: Unknown that was encoded decodes as Unknown from the
\* bincookie Flags (no bit under the mask) and from the Chrome samesite
\* column (-1); the Firefox sameSite column holds 0 for it, which decodes
\* as None.
UnknownRoundTripsButFirefox ==
    (op = "get" /\ given = "Unknown") =>
        /\ stored.fmt = "bincookie" => MaskBits(stored.flags) = 0 /\ site = "Unknown"
        /\ stored.fmt = "chromedb" => stored.col = -1 /\ site = "Unknown"
        /\ stored.fmt = "firefox" => stored.col = 0 /\ site = "None"

\* C10 witness: Unknown was written to the Firefox column and read back
UnknownRoundTripsButFirefoxWitness ==
    op = "get" /\ given = "Unknown" /\ stored.fmt = "firefox" /\ site = "None"

---------------------------------------------------------------------------
(* chromedb encrypted values (crypt.go).  crypto/aes is not part of the    *)
(* repository; it is modelled by a keyed permutation of 16-byte blocks,    *)
(* used in CBC mode as crypto/cipher does: each plaintext block is xored   *)
(* with the previous ciphertext block (the IV for the first) and then      *)
(* permuted.                                                               *)

\* the lengths of encrypted values, in blocks
MaxBlocks == 2

versionTag == <<118, 49, 48>>
keyBytes == 16
ivString == [i \in 1..16 |-> 32]

\* a[i] ^ b[i] for the bytes of two blocks
XorBlock(a, b) == [i \in 1..16 |-> a[i] + b[i] - 2 * AndBits(a[i], b[i], 8)]

\* c.Encrypt(dst, src) and c.Decrypt(dst, src) of the cipher.Block for key
encryptBlock(key, b) == [i \in 1..16 |-> (b[(i % 16) + 1] + key[i]) % 256]
decryptBlock(key, c) ==
    [j \in 1..16 |-> (c[((j + 14) % 16) + 1] - key[((j + 14) % 16) + 1]) % 256]

\* aes.NewCipher(key) accepts keys of 16, 24 and 32 bytes
validKey(key) == Len(key) \in {16, 24, 32}

\* cipher.NewCBCEncrypter(c, iv).CryptBlocks(bs, bs), bs in whole blocks
RECURSIVE CBCEncrypt(_, _, _)
CBCEncrypt(key, iv, bs) ==
    LET chain(c) == c \o CBCEncrypt(key, c, SubSeq(bs, 17, Len(bs)))
    IN  IF bs = <<>> THEN <<>>
        ELSE chain(encryptBlock(key, XorBlock(SubSeq(bs, 1, 16), iv)))

\* cipher.NewCBCDecrypter(c, iv).CryptBlocks(bs, bs), bs in whole blocks
CBCDecrypt(key, iv, bs) ==
    LET block(k) == SubSeq(bs, 16 * (k - 1) + 1, 16 * k)
        before(k) == IF k = 1 THEN iv ELSE block(k - 1)
        plain(k) == XorBlock(decryptBlock(key, block(k)), before(k))
    IN  [i \in 1..Len(bs) |-> plain(((i - 1) \div 16) + 1)[((i - 1) % 16) + 1]]

\* padding that leaves a value of whole blocks unpadded
padLengthNoExtra(n) == (16 - (n % 16)) % 16

padLength(n) == IF n % 16 = 0 THEN 16 ELSE 16 - (n % 16)

encryptValue(key, val) ==
    LET padBytes == padLength(Len(val))
        buf == val \o [i \in 1..padBytes |-> padBytes % 256]
    IN  IF ~validKey(key) THEN Err("invalid key size")
        ELSE Ok(versionTag \o CBCEncrypt(key, ivString, buf))

\* checkValue looking at the last byte only
checkValueLastOnly(val) ==
    LET np == val[Len(val)]
    IN  IF val = <<>> THEN Panic
        ELSE IF np < 1 \/ np > 16 \/ np > Len(val)
        THEN Err("invalid decryption key")
        ELSE Ok(SubSeq(val, 1, Len(val) - np))

\* val[len(val)-1] of an empty val is out of range
checkValue(val) ==
    LET np == val[Len(val)]
    IN  IF val = <<>> THEN Panic
        ELSE IF np < 1 \/ np > 16 \/ np > Len(val)
        THEN Err("invalid decryption key")
        ELSE IF \E i \in (Len(val) - np + 1)..Len(val) : val[i] # np
        THEN Err("invalid decryption key")
        ELSE Ok(SubSeq(val, 1, Len(val) - np))

\* decryptValue that decrypts before it looks at the tag
decryptValueTagLast(key, val) ==
    LET region == SubSeq(val, 4, Len(val))
        checked(d) ==
            IF ~HasPrefix(val, versionTag)
            THEN [res |-> Err("invalid encryped value prefix"),
                  val |-> SubSeq(val, 1, 3) \o d]
            ELSE [res |-> checkValue(d), val |-> versionTag \o d]
    IN  IF ~validKey(key) THEN [res |-> Err("invalid key size"), val |-> val]
        ELSE IF Len(region) % 16 # 0 THEN [res |-> Panic, val |-> val]
        ELSE checked(CBCDecrypt(key, ivString, region))

\* decryptValue(key, val): the result, and val as the call leaves it (the
\* region after the tag is decrypted in place).  CryptBlocks panics on a
\* region that is not of whole blocks.
decryptValue(key, val) ==
    LET region == SubSeq(val, 4, Len(val))
        checked(d) == [res |-> checkValue(d), val |-> versionTag \o d]
    IN  IF ~HasPrefix(val, versionTag)
        THEN [res |-> Err("invalid encryped value prefix"), val |-> val]
        ELSE IF ~validKey(key) THEN [res |-> Err("invalid key size"), val |-> val]
        ELSE IF Len(region) % 16 # 0 THEN [res |-> Panic, val |-> val]
        ELSE checked(CBCDecrypt(key, ivString, region))

\* two keys as encryptionKey derives them: keyBytes bytes each
Keys == <<[i \in 1..keyBytes |-> (7 * i) % 256], [i \in 1..keyBytes |-> 200 - i]>>

\* decrypted regions another producer may have encrypted: one block with
\* these last bytes, after zero or more blocks of filler
Regions ==
    {[i \in 1..(16 * b) |->
        IF i > 16 * b - Len(t) THEN t[i - (16 * b - Len(t))] ELSE 16] :
            t \in {<<0>>, <<17>>, <<3, 3, 3>>, <<2, 3, 3>>, <<1>>, <<255>>},
            b \in 1..MaxBlocks}
    \cup {[i \in 1..16 |-> 16], [i \in 1..16 |-> IF i = 1 THEN 15 ELSE 16]}

\* cookie values: lengths around the block size, and values that end in
\* bytes that look like padding
CryptInit ==
    /\ ckey \in {Keys[1], Keys[2]}
    /\ cval \in {[i \in 1..n |-> (37 * i + n) % 256] :
                    n \in {0, 1, 15, 16, 17, 16 * MaxBlocks}}
               \cup {<<1>>, <<2, 2>>, [i \in 1..16 |-> 16]}
    /\ packet = <<>>
    /\ made = [kind |-> "none", key |-> <<>>]
    /\ was = <<>>
    /\ dec = NoResult
    /\ op = "init"
    /\ Idle("crypt")

\* packet, err := encryptValue(ckey, cval)
EncryptValue ==
    /\ op = "init"
    /\ packet' = encryptValue(ckey, cval).v
    /\ made' = [kind |-> "encryptValue", key |-> ckey]
    /\ op' = "encryptValue"
    /\ UNCHANGED <<ckey, cval, was, dec, codecVars, siteVars, plistVars, storeVars, wash>>

\* a packet from another producer: a tag and a region encrypted with ckey
Forge(region) ==
    /\ op = "init"
    /\ packet' = versionTag \o CBCEncrypt(ckey, ivString, region)
    /\ made' = [kind |-> "forged", key |-> ckey]
    /\ op' = "forge"
    /\ UNCHANGED <<ckey, cval, was, dec, codecVars, siteVars, plistVars, storeVars, wash>>

\* byte i of the packet replaced
EditPacket(i, b) ==
    /\ op \in {"encryptValue", "forge"}
    /\ i \in 1..Len(packet)
    /\ packet[i] # b
    /\ packet' = [packet EXCEPT ![i] = b]
    /\ made' = [made EXCEPT !.kind = "edited"]
    /\ op' = "edit"
    /\ UNCHANGED <<ckey, cval, was, dec, codecVars, siteVars, plistVars, storeVars, wash>>

\* the packet cut to its first n bytes
CutPacket(n) ==
    /\ op \in {"encryptValue", "forge"}
    /\ n < Len(packet)
    /\ packet' = SubSeq(packet, 1, n)
    /\ made' = [made EXCEPT !.kind = "cut"]
    /\ op' = "edit"
    /\ UNCHANGED <<ckey, cval, was, dec, codecVars, siteVars, plistVars, storeVars, wash>>

\* the store is opened with another passphrase
Rekey(k) ==
    /\ op \in {"encryptValue", "forge"}
    /\ k # ckey
    /\ ckey' = k
    /\ op' = "rekey"
    /\ UNCHANGED <<cval, packet, made, was, dec, codecVars, siteVars, plistVars, storeVars, wash>>

\* dec, err := decryptValue(ckey, packet)
DecryptValue ==
    LET done(r) ==
            /\ r.res.kind # "panic"
            /\ dec' = r.res
            /\ packet' = r.val
    IN  /\ op \in {"encryptValue", "forge", "edit", "rekey"}
        /\ done(decryptValue(ckey, packet))
        /\ was' = packet
        /\ op' = "decryptValue"
        /\ UNCHANGED <<ckey, cval, made, codecVars, siteVars, plistVars, storeVars, wash>>

\* decryptValue(ckey, packet) stops the program with a run-time panic
DecryptPanics ==
    /\ op \in {"encryptValue", "forge", "edit", "rekey"}
    /\ decryptValue(ckey, packet).res.kind = "panic"
    /\ dec' = Panic
    /\ was' = packet
    /\ op' = "panic"
    /\ UNCHANGED <<ckey, cval, packet, made, codecVars, siteVars, plistVars, storeVars, wash>>

CryptNext ==
    \/ EncryptValue
    \/ \E region \in Regions : Forge(region)
    \/ \E i \in 1..3, b \in {0, 118} : EditPacket(i, b)
    \/ \E n \in {0, 2, 3, 10} : CutPacket(n)
    \/ \E k \in {Keys[1], Keys[2]} : Rekey(k)
    \/ DecryptValue
    \/ DecryptPanics

SpecCrypt == CryptInit /\ [][CryptNext]_vars

---------------------------------------------------------------------------
(* Properties of encryptValue and decryptValue, checked on SpecCrypt. *)

\* the decrypted region of the packet decryptValue was given
Decrypted == CBCDecrypt(ckey, ivString, SubSeq(was, 4, Len(was)))

\* C11: for a key and a value of n bytes, encryptValue makes a packet of
\* the tag "v10", unencrypted, and n+p encrypted bytes, where 1 <= p <= 16,
\* (n+p) mod 16 = 0 and p = 16 when n is a multiple of 16, the p padding
\* bytes all being p; and decryptValue of that packet with the same key
\* returns exactly the value.
PaddingLaw ==
    LET n == Len(cval)
        p == Len(packet) - 3 - n
    IN  /\ op = "encryptValue" =>
              /\ HasPrefix(packet, versionTag)
              /\ 1 <= p /\ p <= 16
              /\ (n + p) % 16 = 0
              /\ (n % 16 = 0 => p = 16)
              /\ CBCDecrypt(ckey, ivString, SubSeq(packet, 4, Len(packet)))
                     = cval \o [i \in 1..p |-> p]
        /\ (op = "decryptValue" /\ made.kind = "encryptValue" /\ made.key = ckey)
              => dec = Ok(cval)

\* C11 witness: a value of exactly one block was encrypted and decrypted
PaddingLawWitness ==
    /\ op = "decryptValue" /\ made.kind = "encryptValue" /\ made.key = ckey
    /\ Len(cval) = 16
    /\ Len(was) = 3 + 32
    /\ dec = Ok(cval)

\* C12: when decryptValue decrypts a region (a packet with the tag and a
\* non-empty region of whole blocks), with last the final byte of the
\* decrypted region, it returns an error unless 1 <= last <= 16 and the
\* final last bytes all equal last; otherwise it returns the decrypted
\* region without those last bytes.
PaddingChecked ==
    (/\ op = "decryptValue"
     /\ HasPrefix(was, versionTag)
     /\ Len(was) > 3
     /\ (Len(was) - 3) % 16 = 0) =>
        LET d == Decrypted
            last == d[Len(d)]
            good == /\ last >= 1 /\ last <= 16
                    /\ \A i \in (Len(d) - last + 1)..Len(d) : d[i] = last
        IN  IF good THEN dec = Ok(SubSeq(d, 1, Len(d) - last))
            ELSE dec.kind = "error"

\* C12 witness: the last byte is a padding length, the bytes before it are
\* not all that byte, and decryptValue returned an error
PaddingCheckedWitness ==
    /\ op = "decryptValue"
    /\ HasPrefix(was, versionTag)
    /\ Len(was) = 3 + 16
    /\ Decrypted[16] = 3
    /\ Decrypted[14] = 2
    /\ dec.kind = "error"

\* C13: decryptValue of a packet that does not start with "v10" returns
\* an error and leaves every byte of the packet as it was.
TagRequired ==
    (op \in {"decryptValue", "panic"} /\ ~HasPrefix(was, versionTag)) =>
        (op = "decryptValue" /\ dec.kind = "error" /\ packet = was)

\* C13 witness: a packet with a changed tag byte and a block after it was
\* given to decryptValue
TagRequiredWitness ==
    /\ op = "decryptValue"
    /\ ~HasPrefix(was, versionTag)
    /\ Len(was) >= 3 + 16
    /\ dec.kind = "error"

\* C30: decryptValue returns an error, and neither a plaintext nor a
\* run-time panic, for every packet that starts with "v10" and whose
\* encrypted region is empty or not a whole number of 16-byte blocks.
MalformedRegionIsError ==
    (/\ op \in {"decryptValue", "panic"}
     /\ HasPrefix(was, versionTag)
     /\ (Len(was) = 3 \/ (Len(was) - 3) % 16 # 0))
    => dec.kind = "error"

---------------------------------------------------------------------------
(* bplist.Parse.  The Handler is the caller's: the model gives it a number *)
(* h, the call at which it reports an error (0: it never does), and keeps  *)
(* the calls Parse made.  A call is [kind, n, v]: the method, its integer  *)
(* argument (a size or an integer value) and its bytes.                    *)

\* handler calls after which the handler of the model may report an error
MaxCalls == 9
\* nesting of collections the model follows
MaxDepth == 3
\* calls of parseObj inside one another that the model follows step by step
MaxStack == 4

plistMagic == <<98, 112, 108, 105, 115, 116>>
trailerBytes == 32

Nil == [kind |-> "nil"]
Event(kind, n, v) == [kind |-> kind, n |-> n, v |-> v]

\* parseInt: the bytes as a big-endian integer; 2^20 stands for every
\* integer with a non-zero byte above the low two, too large for any of
\* the inputs here to hold an offset, a size or a reference that big
parseInt(bs) ==
    LET n == Len(bs)
    IN  IF \E i \in 1..(n - 2) : bs[i] # 0 THEN 1048576
        ELSE IF n = 0 THEN 0
        ELSE IF n = 1 THEN bs[1]
        ELSE bs[n - 1] * 256 + bs[n]

\* data[lo:hi] is in range
inRange(bs, lo, hi) == 0 <= lo /\ lo <= hi /\ hi <= Len(bs)

\* the 64 bits of the 2^k bytes of a real, most significant first
parseFloat(bs) ==
    [i \in 1..(8 * Len(bs)) |-> Bits(bs[((i - 1) \div 8) + 1], 8)[((i - 1) % 8) + 1]]

\* parseTrailer(data[len(data)-32:])
plistTrailer(bs) ==
    LET tr == SubSeq(bs, Len(bs) - 31, Len(bs))
    IN  [OffsetBytes |-> tr[7],
         RefBytes |-> tr[8],
         NumObjects |-> parseInt(SubSeq(tr, 9, 16)),
         RootObject |-> parseInt(SubSeq(tr, 17, 24)),
         OffsetTable |-> parseInt(SubSeq(tr, 25, 32))]

\* sizeAndShift that takes the low nibble of the tag as the size always
sizeAndShiftInline(tag, bs) == [kind |-> "ok", nb |-> tag % 16, offset |-> 0]

\* sizeAndShift(tag, data): the size in the tag, or after it when the low
\* nibble is 15
sizeAndShift(tag, bs) ==
    LET size == 2 ^ (bs[1] % 16)
    IN  IF tag % 16 # 15 THEN [kind |-> "ok", nb |-> tag % 16, offset |-> 0]
        ELSE IF bs = <<>> \/ ~inRange(bs, 1, 1 + size) THEN [kind |-> "panic", nb |-> 0, offset |-> 0]
        ELSE [kind |-> "ok", nb |-> parseInt(SubSeq(bs, 2, 1 + size)), offset |-> 1 + size]

\* one handler call: it is recorded, and its result is the handler's
call(h, evs, ev) ==
    [events |-> Append(evs, ev),
     res |-> IF Len(evs) + 1 = h THEN Err("handler") ELSE Nil]

stop(evs, res) == [events |-> evs, res |-> res]

RECURSIVE parseObj(_, _, _, _, _, _, _)
RECURSIVE parseElems(_, _, _, _, _, _, _, _)
RECURSIVE parseDictKeepGoing(_, _, _, _, _, _, _, _, _)
RECURSIVE parseDict(_, _, _, _, _, _, _, _, _)

\* a loop that leaves after its first element
parseElemsOnce(bs, t, offsets, h, start, n, evs, depth) ==
    IF n = 0 THEN stop(evs, Nil)
    ELSE IF ~inRange(bs, start, start + t.RefBytes) THEN stop(evs, Panic)
    ELSE parseObj(bs, t, offsets, h,
                  parseInt(SubSeq(bs, start + 1, start + t.RefBytes)),
                  evs, depth + 1)

\* the loop of an array or a set: n references from data[start]
parseElems(bs, t, offsets, h, start, n, evs, depth) ==
    LET next(r) ==
            IF r.res # Nil THEN r
            ELSE parseElems(bs, t, offsets, h, start + t.RefBytes, n - 1,
                            r.events, depth)
    IN  IF n = 0 THEN stop(evs, Nil)
        ELSE IF ~inRange(bs, start, start + t.RefBytes) THEN stop(evs, Panic)
        ELSE next(parseObj(bs, t, offsets, h,
                           parseInt(SubSeq(bs, start + 1, start + t.RefBytes)),
                           evs, depth + 1))

\* the loop of a dictionary that goes on to the value when its key failed
parseDictKeepGoing(bs, t, offsets, h, keyStart, valStart, n, evs, depth) ==
    LET next(r) ==
            IF r.res # Nil THEN r
            ELSE parseDictKeepGoing(bs, t, offsets, h, keyStart + t.RefBytes,
                                    valStart + t.RefBytes, n - 1, r.events, depth)
        value(r) ==
            IF r.res = Panic THEN r
            ELSE IF ~inRange(bs, valStart, valStart + t.RefBytes)
            THEN stop(r.events, Panic)
            ELSE next(parseObj(bs, t, offsets, h,
                               parseInt(SubSeq(bs, valStart + 1, valStart + t.RefBytes)),
                               r.events, depth + 1))
    IN  IF n = 0 THEN stop(evs, Nil)
        ELSE IF ~inRange(bs, keyStart, keyStart + t.RefBytes) THEN stop(evs, Panic)
        ELSE value(parseObj(bs, t, offsets, h,
                            parseInt(SubSeq(bs, keyStart + 1, keyStart + t.RefBytes)),
                            evs, depth + 1))

\* the loop of a dictionary: n key references from data[keyStart], n value
\* references from data[valStart], taken in turn
parseDict(bs, t, offsets, h, keyStart, valStart, n, evs, depth) ==
    LET next(r) ==
            IF r.res # Nil THEN r
            ELSE parseDict(bs, t, offsets, h, keyStart + t.RefBytes,
                           valStart + t.RefBytes, n - 1, r.events, depth)
        value(r) ==
            IF r.res # Nil THEN r
            ELSE IF ~inRange(bs, valStart, valStart + t.RefBytes)
            THEN stop(r.events, Panic)
            ELSE next(parseObj(bs, t, offsets, h,
                               parseInt(SubSeq(bs, valStart + 1, valStart + t.RefBytes)),
                               r.events, depth + 1))
    IN  IF n = 0 THEN stop(evs, Nil)
        ELSE IF ~inRange(bs, keyStart, keyStart + t.RefBytes) THEN stop(evs, Panic)
        ELSE value(parseObj(bs, t, offsets, h,
                            parseInt(SubSeq(bs, keyStart + 1, keyStart + t.RefBytes)),
                            evs, depth + 1))

\* parseObj(id).  Past MaxDepth nested collections the model stops
\* following references and reports "deep".
parseObj(bs, t, offsets, h, id, evs, depth) ==
    LET off == offsets[id + 1]
        tag == bs[off + 1]
        hi == tag \div 16
        lo == tag % 16
        unrecognized == stop(evs, Err("unrecognized tag"))
        scalar(kind) ==
            IF ~inRange(bs, off + 1, off + 1 + 2 ^ lo) THEN stop(evs, Panic)
            ELSE call(h, evs, Event(kind, 0, SubSeq(bs, off + 2, off + 1 + 2 ^ lo)))
        int ==
            IF ~inRange(bs, off + 1, off + 1 + 2 ^ lo) THEN stop(evs, Panic)
            ELSE call(h, evs, Event("Int", parseInt(SubSeq(bs, off + 2, off + 1 + 2 ^ lo)), <<>>))
        date ==
            IF ~inRange(bs, off + 1, off + 9) THEN stop(evs, Panic)
            ELSE call(h, evs, Event("Time",
                     timeFromFloat(parseFloat(SubSeq(bs, off + 2, off + 9))).sec, <<>>))
        bytes(kind, ss) ==
            IF ss.kind = "panic" \/ ~inRange(bs, off + 1 + ss.offset, off + 1 + ss.offset + ss.nb)
            THEN stop(evs, Panic)
            ELSE call(h, evs, Event(kind, 0,
                     SubSeq(bs, off + 2 + ss.offset, off + 1 + ss.offset + ss.nb)))
        close(kind, r) == IF r.res # Nil THEN r ELSE call(h, r.events, Event(kind, 0, <<>>))
        elems(ss, kind, b) ==
            IF b.res # Nil THEN b
            ELSE close(kind, parseElems(bs, t, offsets, h, off + 1 + ss.offset,
                                        ss.nb, b.events, depth))
        pairs(ss, b) ==
            IF b.res # Nil THEN b
            ELSE close("EndDict",
                       parseDict(bs, t, offsets, h, off + 1 + ss.offset,
                                 off + 1 + ss.offset + ss.nb * t.RefBytes,
                                 ss.nb, b.events, depth))
        array(ss) ==
            IF ss.kind = "panic" THEN stop(evs, Panic)
            ELSE elems(ss, "EndArray", call(h, evs, Event("BeginArray", ss.nb, <<>>)))
        set(ss) ==
            IF ss.kind = "panic" THEN stop(evs, Panic)
            ELSE elems(ss, "EndSet", call(h, evs, Event("BeginSet", ss.nb, <<>>)))
        dict(ss) ==
            IF ss.kind = "panic" THEN stop(evs, Panic)
            ELSE pairs(ss, call(h, evs, Event("BeginDict", ss.nb, <<>>)))
        rest == SubSeq(bs, off + 2, Len(bs))
    IN  IF depth > MaxDepth THEN stop(evs, [kind |-> "deep"])
        ELSE IF id < 0 \/ id >= Len(offsets) THEN stop(evs, Panic)
        ELSE IF off >= Len(bs) THEN stop(evs, Panic)
        ELSE CASE hi = 0 /\ lo = 0 -> call(h, evs, Event("Null", 0, <<>>))
               [] hi = 0 /\ lo = 8 -> call(h, evs, Event("Bool", 0, <<>>))
               [] hi = 0 /\ lo = 9 -> call(h, evs, Event("Bool", 1, <<>>))
               [] hi = 1 -> int
               [] hi = 2 -> scalar("Float")
               [] hi = 3 /\ lo = 3 -> date
               [] hi = 4 -> bytes("Bytes", sizeAndShift(tag, rest))
               [] hi = 5 -> bytes("String", sizeAndShift(tag, rest))
               [] hi = 10 -> array(sizeAndShift(tag, rest))
               [] hi = 12 -> set(sizeAndShift(tag, rest))
               [] hi = 13 -> dict(sizeAndShift(tag, rest))
               [] OTHER -> unrecognized

\* Parse(data, h): the handler calls made and the result
Parse(bs, h) ==
    LET objects(t, v) ==
            IF v.res # Nil THEN v
            ELSE IF t.OffsetTable + t.OffsetBytes * t.NumObjects > Len(bs) - 32
            THEN stop(v.events, Err("invalid offsets table"))
            ELSE parseObj(bs, t,
                     [i \in 1..t.NumObjects |->
                         parseInt(SubSeq(bs, t.OffsetTable + t.OffsetBytes * (i - 1) + 1,
                                         t.OffsetTable + t.OffsetBytes * i))],
                     h, t.RootObject, v.events, 0)
    IN  IF ~HasPrefix(bs, plistMagic) THEN stop(<<>>, Err("invalid magic number"))
        ELSE IF Len(bs) < Len(plistMagic) + 2 + trailerBytes
        THEN stop(<<>>, Err("invalid file structure"))
        ELSE objects(plistTrailer(bs), call(h, <<>>, Event("Version", 0, SubSeq(bs, 7, 8))))

\* property lists as another producer lays them out: the header, the
\* objects, a table of one-byte offsets, the trailer; object 0 is the root
plist(objs) ==
    LET be64(n) == <<0, 0, 0, 0, 0, 0, n \div 256, n % 256>>
        before(k) == sumOf([i \in 1..(k - 1) |-> Len(objs[i])])
        total == before(Len(objs) + 1)
        flat == [p \in 1..total |->
                    LET k == CHOOSE j \in 1..Len(objs) :
                                 before(j) < p /\ p <= before(j + 1)
                    IN  objs[k][p - before(k)]]
    IN  plistMagic \o <<48, 48>> \o flat
        \o [i \in 1..Len(objs) |-> 8 + before(i)]
        \o <<0, 0, 0, 0, 0, 0, 1, 1>> \o be64(Len(objs)) \o be64(0)
        \o be64(8 + total)

\* the property lists parsed:
\*   policy    the default policy of a File
\*   nested    ["a", {"k": 1}, true]
\*   unicode   a Unicode string as the root object
\*   uid       a UID as the root object
\*   arrayuid  [7, UID(1)]
\*   set       {null, false} as a set
\*   scalars   [data, 1.0, date 0]
\*   badref    an array with a reference to an object that does not exist
\*   fill      a fill byte as the root object
\*   badtable  the default policy with its offset table moved past the end
\*   badmagic  the default policy with another first byte
\*   short     the header alone
\*   selfref   an array whose one element is the array itself
\*   loop      {"k": [...]} whose array holds the dictionary itself
Blobs ==
    [policy |-> DefaultPolicy,
     nested |-> plist(<< <<163, 1, 2, 5>>, <<81, 97>>, <<209, 3, 4>>, <<81, 107>>,
                         <<16, 1>>, <<9>> >>),
     unicode |-> plist(<< <<97, 0, 65>> >>),
     uid |-> plist(<< <<128, 1>> >>),
     arrayuid |-> plist(<< <<162, 1, 2>>, <<16, 7>>, <<128, 1>> >>),
     set |-> plist(<< <<194, 1, 2>>, <<0>>, <<8>> >>),
     scalars |-> plist(<< <<163, 1, 2, 3>>, <<66, 1, 2>>,
                          <<35, 63, 240, 0, 0, 0, 0, 0, 0>>,
                          <<51, 0, 0, 0, 0, 0, 0, 0, 0>> >>),
     badref |-> plist(<< <<161, 9>> >>),
     fill |-> plist(<< <<15>> >>),
     badtable |-> [DefaultPolicy EXCEPT ![Len(DefaultPolicy)] = 200],
     badmagic |-> [DefaultPolicy EXCEPT ![1] = 99],
     short |-> plistMagic \o <<48, 48>>,
     selfref |-> plist(<< <<161, 0>> >>),
     loop |-> plist(<< <<209, 1, 2>>, <<81, 107>>, <<161, 0>> >>)]

PlistInit ==
    /\ blob \in {Blobs[k] : k \in DOMAIN Blobs}
    /\ failAt \in 0..MaxCalls
    /\ events = <<>>
    /\ perr = NoResult
    /\ stack = <<>>
    /\ op = "init"
    /\ Idle("plist")

\* err := bplist.Parse(blob, h), when the model follows it to its return
DoParse ==
    LET done(r) ==
            /\ r.res.kind \notin {"panic", "deep"}
            /\ events' = r.events
            /\ perr' = r.res
    IN  /\ op = "init"
        /\ done(Parse(blob, failAt))
        /\ op' = "Parse"
        /\ UNCHANGED <<blob, failAt, stack, codecVars, siteVars, cryptVars, storeVars, wash>>

\* bplist.Parse(blob, h) stops the program with a run-time panic
ParsePanics ==
    LET done(r) ==
            /\ r.res = Panic
            /\ events' = r.events
            /\ perr' = r.res
    IN  /\ op = "init"
        /\ done(Parse(blob, failAt))
        /\ op' = "panic"
        /\ UNCHANGED <<blob, failAt, stack, codecVars, siteVars, cryptVars, storeVars, wash>>

\* a parseObj that calls Begin for a collection and does not go into it
visitFlat(bs, t, offsets, h, id, stk, evs) ==
    LET b == call(h, evs, Event("BeginArray", 0, <<>>))
    IN  [stack |-> stk, events |-> b.events, res |-> b.res]

\* Parse step by step.  stack holds one entry for each call of parseObj on
\* a collection that has not returned: the End it will call and the
\* positions of the references it has not read yet.
\*
\* parseObj(id) up to its first call of parseObj or its return: the stack,
\* the handler calls and the result so far (nil: Parse goes on)
visit(bs, t, offsets, h, id, stk, evs) ==
    LET off == offsets[id + 1]
        tag == bs[off + 1]
        hi == tag \div 16
        ss == sizeAndShift(tag, SubSeq(bs, off + 2, Len(bs)))
        first == off + 1 + ss.offset
        at == IF hi = 13
              THEN [k \in 1..(2 * ss.nb) |->
                       IF k % 2 = 1 THEN first + ((k - 1) \div 2) * t.RefBytes
                       ELSE first + (ss.nb + (k - 2) \div 2) * t.RefBytes]
              ELSE [k \in 1..ss.nb |-> first + (k - 1) * t.RefBytes]
        kind == IF hi = 10 THEN "Array" ELSE IF hi = 12 THEN "Set" ELSE "Dict"
        out(k, e, r) == [stack |-> k, events |-> e, res |-> r]
        begun(b) ==
            IF b.res # Nil THEN out(stk, b.events, b.res)
            ELSE IF Len(stk) = MaxStack THEN out(stk, b.events, [kind |-> "deep"])
            ELSE out(Append(stk, [end |-> "End" \o kind, at |-> at]), b.events, Nil)
        scalar(r) == out(stk, r.events, r.res)
    IN  IF id < 0 \/ id >= Len(offsets) THEN out(stk, evs, Panic)
        ELSE IF off >= Len(bs) THEN out(stk, evs, Panic)
        ELSE IF hi \notin {10, 12, 13} THEN scalar(parseObj(bs, t, offsets, h, id, evs, 0))
        ELSE IF ss.kind = "panic" THEN out(stk, evs, Panic)
        ELSE begun(call(h, evs, Event("Begin" \o kind, ss.nb, <<>>)))

\* bplist.Parse(blob, h) is called and runs up to its first call of
\* parseObj inside parseObj, or to its return.  The property list of reals
\* and dates is left to DoParse.
WalkStart ==
    LET t == plistTrailer(blob)
        offsets == [i \in 1..t.NumObjects |->
                       parseInt(SubSeq(blob, t.OffsetTable + t.OffsetBytes * (i - 1) + 1,
                                       t.OffsetTable + t.OffsetBytes * i))]
        v == call(failAt, <<>>, Event("Version", 0, SubSeq(blob, 7, 8)))
        r == IF ~HasPrefix(blob, plistMagic)
             THEN [stack |-> <<>>, events |-> <<>>, res |-> Err("invalid magic number")]
             ELSE IF Len(blob) < Len(plistMagic) + 2 + trailerBytes
             THEN [stack |-> <<>>, events |-> <<>>, res |-> Err("invalid file structure")]
             ELSE IF v.res # Nil THEN [stack |-> <<>>, events |-> v.events, res |-> v.res]
             ELSE IF t.OffsetTable + t.OffsetBytes * t.NumObjects > Len(blob) - 32
             THEN [stack |-> <<>>, events |-> v.events, res |-> Err("invalid offsets table")]
             ELSE visit(blob, t, offsets, failAt, t.RootObject, <<>>, v.events)
    IN  /\ op = "init"
        /\ blob # Blobs.scalars
        /\ \E to \in {r} :
              /\ stack' = to.stack
              /\ events' = to.events
              /\ op' = IF to.res.kind \in {"panic", "deep"} THEN to.res.kind
                       ELSE IF to.res # Nil \/ to.stack = <<>> THEN "returned"
                       ELSE "running"
              /\ perr' = IF to.res # Nil \/ to.stack = <<>> THEN to.res ELSE perr
        /\ UNCHANGED <<blob, failAt, codecVars, siteVars, cryptVars, storeVars, wash>>

\* the innermost parseObj goes on: it reads its next reference and calls
\* parseObj on it, or it has none left, calls End and returns.  An error
\* goes up through every parseObj and Parse returns it.
WalkStep ==
    /\ op = "running"
    /\ \E t \in {plistTrailer(blob)}, top \in {stack[Len(stack)]} :
       \E offsets \in {[i \in 1..t.NumObjects |->
                           parseInt(SubSeq(blob, t.OffsetTable + t.OffsetBytes * (i - 1) + 1,
                                           t.OffsetTable + t.OffsetBytes * i))]},
          under \in {SubSeq(stack, 1, Len(stack) - 1)},
          end \in {call(failAt, events, Event(top.end, 0, <<>>))} :
       \E to \in {IF top.at = <<>>
                   THEN [stack |-> under, events |-> end.events, res |-> end.res]
                   ELSE IF ~inRange(blob, Head(top.at), Head(top.at) + t.RefBytes)
                   THEN [stack |-> stack, events |-> events, res |-> Panic]
                   ELSE visit(blob, t, offsets, failAt,
                              parseInt(SubSeq(blob, Head(top.at) + 1,
                                              Head(top.at) + t.RefBytes)),
                              Append(under, [top EXCEPT !.at = Tail(@)]), events)} :
          /\ stack' = to.stack
          /\ events' = to.events
          /\ op' = IF to.res.kind \in {"panic", "deep"} THEN to.res.kind
                   ELSE IF to.res # Nil \/ to.stack = <<>> THEN "returned"
                   ELSE "running"
          /\ perr' = IF to.res # Nil \/ to.stack = <<>> THEN to.res ELSE perr
    /\ UNCHANGED <<blob, failAt, codecVars, siteVars, cryptVars, storeVars, wash>>

PlistNext ==
    \/ DoParse
    \/ ParsePanics
    \/ WalkStart
    \/ WalkStep

SpecPlist == PlistInit /\ [][PlistNext]_vars

\* Parse is one sequential call: while it is running it takes its next step
FairPlist == SpecPlist /\ WF_vars(WalkStep)

---------------------------------------------------------------------------
(* Properties of bplist.Parse, checked on SpecPlist. *)

\* C15: Parse of bincookie.DefaultPolicy with a handler that reports no
\* error succeeds, and the handler calls are exactly Version("00"),
\* BeginDict(1), String("NSHTTPCookieAcceptPolicy"), Int(2), EndDict().
DefaultPolicyEvents ==
    (op = "Parse" /\ blob = DefaultPolicy /\ (failAt = 0 \/ failAt > 5)) =>
        /\ perr = Nil
        /\ events = << Event("Version", 0, <<48, 48>>),
                       Event("BeginDict", 1, <<>>),
                       Event("String", 0,
                             <<78, 83, 72, 84, 84, 80, 67, 111, 111, 107, 105, 101,
                               65, 99, 99, 101, 112, 116, 80, 111, 108, 105, 99, 121>>),
                       Event("Int", 2, <<>>),
                       Event("EndDict", 0, <<>>) >>

\* C15 witness: the default policy was parsed with a handler that never
\* reports an error
DefaultPolicyEventsWitness ==
    op = "Parse" /\ blob = DefaultPolicy /\ failAt = 0 /\ Len(events) = 5

\* C16: when a handler call reports an error, Parse makes no further
\* handler call and returns that error.
HandlerErrorAborts ==
    (op \in {"Parse", "panic"} /\ failAt > 0 /\ Len(events) >= failAt) =>
        (op = "Parse" /\ Len(events) = failAt /\ perr = Err("handler"))

\* C16 witness: the handler reported its error for a dictionary key inside
\* an array, two collections deep
HandlerErrorAbortsWitness ==
    /\ op = "Parse" /\ blob = Blobs.nested /\ failAt = 5
    /\ Len(events) = 5
    /\ events[5] = Event("String", 0, <<107>>)
    /\ perr = Err("handler")

\* C17 as stated: for an object tagged as a Unicode string (high nibble 6)
\* or a UID (high nibble 8), Parse hands the raw bytes of the object to the
\* handler as an element of its own kind, and does not fail.
UnicodeAndUIDPassThrough ==
    (op \in {"Parse", "panic"} /\ failAt = 0 /\ blob \in {Blobs.unicode, Blobs.uid}) =>
        /\ perr = Nil
        /\ \E i \in 1..Len(events) : events[i].kind \in {"Unicode", "UID"}

\* the position after the element that begins at events[i], and 0 when
\* what begins there is not an element: a scalar call, or Begin(n) with n
\* elements (2n for a dictionary) and the End of its kind
RECURSIVE elementEnd(_, _)
RECURSIVE elementsEnd(_, _, _)
elementsEnd(evs, i, n) ==
    LET after(j) == IF j = 0 THEN 0 ELSE elementsEnd(evs, j, n - 1)
    IN  IF n = 0 THEN i ELSE after(elementEnd(evs, i))
elementEnd(evs, i) ==
    LET closed(j, end) ==
            IF j = 0 \/ j > Len(evs) THEN 0
            ELSE IF evs[j].kind = end THEN j + 1
            ELSE 0
    IN  IF i > Len(evs) THEN 0
        ELSE CASE evs[i].kind = "BeginArray" ->
                      closed(elementsEnd(evs, i + 1, evs[i].n), "EndArray")
               [] evs[i].kind = "BeginSet" ->
                      closed(elementsEnd(evs, i + 1, evs[i].n), "EndSet")
               [] evs[i].kind = "BeginDict" ->
                      closed(elementsEnd(evs, i + 1, 2 * evs[i].n), "EndDict")
               [] evs[i].kind \in {"Version", "EndArray", "EndSet", "EndDict"} -> 0
               [] OTHER -> i + 1

\* C24: when Parse returns nil, the first handler call is Version and no
\* later one is; the calls after it are one element: every Begin(n) is
\* followed by its n elements, for a dictionary by n keys each followed at
\* once by its value, and then by the End of its kind.
EventsWellNested ==
    (op = "Parse" /\ perr = Nil) =>
        /\ Len(events) >= 2
        /\ events[1].kind = "Version"
        /\ \A i \in 2..Len(events) : events[i].kind # "Version"
        /\ elementEnd(events, 2) = Len(events) + 1

\* C24 witness: ["a", {"k": 1}, true] was parsed to the end: an array of
\* three with a dictionary of one pair inside
EventsWellNestedWitness ==
    /\ op = "Parse" /\ perr = Nil /\ blob = Blobs.nested
    /\ Len(events) = 9
    /\ events[2] = Event("BeginArray", 3, <<>>)
    /\ events[4] = Event("BeginDict", 1, <<>>)
    /\ events[5].kind = "String" /\ events[6].kind = "Int"
    /\ events[7].kind = "EndDict"
    /\ events[9].kind = "EndArray"

\* the property lists in which a collection holds itself
Cyclic == blob \in {Blobs.selfref, Blobs.loop}

\* the Begin calls among the handler calls so far
Begins ==
    Cardinality({i \in 1..Len(events) :
                    events[i].kind \in {"BeginArray", "BeginSet", "BeginDict"}})

\* C25: Parse follows references with no check for a cycle or for depth.
\* On a property list in which a collection holds itself, directly or
\* through another collection, with a handler that never reports an error,
\* Parse never returns: every parseObj is still running, there is one
\* Begin call for each, none has called End, and the recursion outgrows
\* every depth followed.  On every other property list Parse comes to its
\* end, with the handler calls and the result of Parse.
UnguardedRecursion ==
    /\ []((Cyclic /\ failAt = 0) =>
            /\ op \notin {"returned", "Parse", "panic"}
            /\ Begins >= Len(stack)
            /\ \A i \in 1..Len(events) :
                  events[i].kind \notin {"EndArray", "EndSet", "EndDict"})
    /\ (Cyclic /\ failAt = 0 /\ op = "running")
          ~> (op = "deep" /\ Begins > MaxStack)
    /\ (~Cyclic /\ op = "running") ~> (op \in {"returned", "panic"})
    /\ [](~Cyclic /\ op = "returned" =>
             /\ events = Parse(blob, failAt).events
             /\ perr = Parse(blob, failAt).res)

\* C25 witness: {"k": [...]} whose array holds the dictionary: Parse is
\* MaxStack collections deep, dictionary and array in turn, and goes on
UnguardedRecursionWitness ==
    /\ blob = Blobs.loop /\ failAt = 0 /\ op = "deep"
    /\ Len(stack) = MaxStack
    /\ events[2].kind = "BeginDict" /\ events[3].kind = "String"
    /\ events[4].kind = "BeginArray" /\ events[5].kind = "BeginDict"
    /\ Begins = MaxStack + 1

---------------------------------------------------------------------------
(* The three Stores and their Scan.  The ScanFunc is the caller's: the     *)
(* model gives it a script, one step for each of its calls.  A step says   *)
(* whether the callback sets a new Value through the Editor, and what it   *)
(* returns.  A cookies.C is [Name, Value, Domain, Path, Expires, Created,  *)
(* Secure, HTTPOnly, SameSite].                                            *)

\* cookies a bincookie Store of the model holds
MaxScan == 3
\* most Commit calls of a run
MaxCommits == 2

Keep == 1
Update == 2
Discard == 3


\* the value a callback sets
NewValue == <<110, 101, 119>>
Step(edit, value, act, err) ==
    [edit |-> edit, value |-> value, name |-> <<>>, act |-> act, err |-> err]

\* what the callback does at its i-th call
stepAt(sc, i) == IF i <= Len(sc) THEN sc[i] ELSE Step(FALSE, <<>>, Keep, FALSE)

\* the cookie the callback hands to Set, given the one Get returned
edited(o, step) ==
    [o EXCEPT !.Value = step.value,
              !.Name = IF step.name = <<>> THEN @ ELSE step.name]

\* bincookie Cookie.Get
CookieGet(c) ==
    [Name |-> c.Name, Value |-> c.Value, Domain |-> c.URL, Path |-> c.Path,
     Expires |-> c.Expires, Created |-> c.Created,
     Secure |-> And32(c.Flags, U32(FlagSecure)) # U32(0),
     HTTPOnly |-> And32(c.Flags, U32(FlagHTTPOnly)) # U32(0),
     SameSite |-> sameSite(c.Flags)]

\* bincookie Cookie.Set: the Cookie afterwards
CookieSet(c, o) ==
    LET f0 == AndNot32(c.Flags, U32(FlagFlagsMask))
        f1 == IF o.Secure THEN Or32(f0, U32(FlagSecure)) ELSE f0
        f2 == IF o.HTTPOnly THEN Or32(f1, U32(FlagHTTPOnly)) ELSE f1
    IN  [c EXCEPT !.Flags = setSameSite(f2, o.SameSite),
                  !.URL = o.Domain, !.Name = o.Name, !.Path = o.Path,
                  !.Value = o.Value, !.Expires = o.Expires, !.Created = o.Created]

\* one turn of the inner loop of bincookie Scan that keeps the edited copy
\* of a cookie answered Keep
scanCookieKeepEdits(st, c, step) ==
    LET tmp == IF step.edit THEN CookieSet(c, edited(CookieGet(c), step)) ELSE c
        called == [st EXCEPT !.calls = Append(@, [c |-> CookieGet(c), id |-> 0])]
    IN  IF step.err THEN [called EXCEPT !.res = Err("callback")]
        ELSE IF step.act = Keep THEN [called EXCEPT !.out = Append(@, tmp)]
        ELSE IF step.act = Update
        THEN [called EXCEPT !.out = Append(@, tmp), !.dirty = TRUE]
        ELSE IF step.act = Discard THEN [called EXCEPT !.dirty = TRUE]
        ELSE [called EXCEPT !.res = Err("unknown action")]

\* one turn of the inner loop of bincookie Scan, for the cookie c: the
\* callback gets a copy of c
scanCookie(st, c, step) ==
    LET tmp == IF step.edit THEN CookieSet(c, edited(CookieGet(c), step)) ELSE c
        called == [st EXCEPT !.calls = Append(@, [c |-> CookieGet(c), id |-> 0])]
    IN  IF step.err THEN [called EXCEPT !.res = Err("callback")]
        ELSE IF step.act = Keep THEN [called EXCEPT !.out = Append(@, c)]
        ELSE IF step.act = Update
        THEN [called EXCEPT !.out = Append(@, tmp), !.dirty = TRUE]
        ELSE IF step.act = Discard THEN [called EXCEPT !.dirty = TRUE]
        ELSE [called EXCEPT !.res = Err("unknown action")]

\* the inner loop of bincookie Scan from cookie j of a page
RECURSIVE scanCookies(_, _, _, _)
scanCookies(cs, j, sc, st) ==
    LET go(r) == IF r.res # Nil THEN r ELSE scanCookies(cs, j + 1, sc, r)
    IN  IF j > Len(cs) THEN st
        ELSE go(scanCookie(st, cs[j], stepAt(sc, Len(st.calls) + 1)))

\* the outer loop of a bincookie Scan that stores the cookies gathered so
\* far in the page at which the callback fails
RECURSIVE scanPagesPartial(_, _, _)
scanPagesPartial(k, sc, st) ==
    LET after(r) ==
            IF r.res # Nil
            THEN [pages |-> [st.pages EXCEPT ![k].Cookies = r.out],
                  calls |-> r.calls, dirty |-> r.dirty, res |-> r.res]
            ELSE scanPagesPartial(k + 1, sc,
                     [pages |-> [st.pages EXCEPT ![k].Cookies = r.out],
                      calls |-> r.calls, dirty |-> r.dirty, res |-> Nil])
    IN  IF k > Len(st.pages) THEN st
        ELSE after(scanCookies(st.pages[k].Cookies, 1, sc,
                       [out |-> <<>>, calls |-> st.calls, dirty |-> st.dirty,
                        res |-> Nil]))

\* the outer loop of bincookie Scan from page k: st is [pages, calls,
\* dirty, res]
RECURSIVE scanPages(_, _, _)
scanPages(k, sc, st) ==
    LET after(r) ==
            IF r.res # Nil
            THEN [st EXCEPT !.calls = r.calls, !.dirty = r.dirty, !.res = r.res]
            ELSE scanPages(k + 1, sc,
                     [pages |-> [st.pages EXCEPT ![k].Cookies = r.out],
                      calls |-> r.calls, dirty |-> r.dirty, res |-> Nil])
    IN  IF k > Len(st.pages) THEN st
        ELSE after(scanCookies(st.pages[k].Cookies, 1, sc,
                       [out |-> <<>>, calls |-> st.calls, dirty |-> st.dirty,
                        res |-> Nil]))

\* bincookie Store.Scan: the Store afterwards, the calls, the result
bincookieScan(st, sc) ==
    LET done(r) ==
            [store |-> [st EXCEPT !.pages = r.pages, !.dirty = r.dirty],
             calls |-> r.calls, res |-> r.res]
    IN  done(scanPages(1, sc,
                 [pages |-> st.pages, calls |-> <<>>, dirty |-> st.dirty,
                  res |-> Nil]))

\* a Commit that writes the file whether or not the Store is dirty
bincookieCommitAlways(st, io) ==
    LET w == FileWriteTo([Pages |-> st.pages, Checksum |-> U32(0), Policy |-> <<>>])
        fixed == [st EXCEPT !.pages = w.file.Pages]
    IN  IF io = "new"
        THEN [store |-> st, wrote |-> FALSE, out |-> <<>>, res |-> Err("atomicfile")]
        ELSE IF io = "close"
        THEN [store |-> fixed, wrote |-> FALSE, out |-> <<>>, res |-> Err("atomicfile")]
        ELSE [store |-> fixed, wrote |-> TRUE, out |-> w.out, res |-> Nil]

\* bincookie Store.Commit: the Store afterwards, whether the file at the
\* path was replaced and by which bytes, and the result.  File.WriteTo
\* drops the empty pages of the File it writes; a Store of the model does
\* not keep the Policy of its File, and the default one is written.
bincookieCommit(st, io) ==
    LET w == FileWriteTo([Pages |-> st.pages, Checksum |-> U32(0), Policy |-> <<>>])
        fixed == [st EXCEPT !.pages = w.file.Pages]
    IN  IF ~st.dirty
        THEN [store |-> st, wrote |-> FALSE, out |-> <<>>, res |-> Nil]
        ELSE IF io = "new"
        THEN [store |-> st, wrote |-> FALSE, out |-> <<>>, res |-> Err("atomicfile")]
        ELSE IF io = "close"
        THEN [store |-> fixed, wrote |-> FALSE, out |-> <<>>, res |-> Err("atomicfile")]
        ELSE [store |-> fixed, wrote |-> TRUE, out |-> w.out, res |-> Nil]

\* a timestamp column holds microseconds; the model keeps it as the whole
\* Unix seconds and the microseconds within the second.
\* chromedb timestampToTime and timeToTimestamp
timestampToTime(col) == [sec |-> col.unix, nsec |-> col.micro * 1000]
timeToTimestamp(t) == [unix |-> t.sec, micro |-> t.nsec \div 1000]

boolToInt(v) == IF v THEN 1 ELSE 0

\* chromedb readCookies: the cookies, or the first failure; a row with an
\* empty value and an encrypted one is decrypted, or shown as "[ENCRYPTED]"
\* when the store has no key
chromeReadCookies(rows, key) ==
    LET valueOf(row) ==
            IF row.value = <<>> /\ Len(row.encrypted_value) # 0
            THEN IF Len(key) = 0
                 THEN Ok(<<91, 69, 78, 67, 82, 89, 80, 84, 69, 68, 93>>)
                 ELSE decryptValue(key, row.encrypted_value).res
            ELSE Ok(row.value)
        cookieOf(row, value) ==
            [C |-> [Name |-> row.name, Value |-> value, Domain |-> row.host_key,
                    Path |-> row.path,
                    Expires |-> timestampToTime(row.expires_utc),
                    Created |-> timestampToTime(row.creation_utc),
                    Secure |-> row.is_secure # 0, HTTPOnly |-> row.is_httponly # 0,
                    SameSite |-> chromedbDecodeSitePolicy(row.samesite)],
             rowID |-> row.rowid]
        vals == [i \in 1..Len(rows) |-> valueOf(rows[i])]
        bad == {i \in 1..Len(rows) : vals[i].kind # "ok"}
        first == CHOOSE i \in bad : \A j \in bad : i <= j
    IN  IF bad # {}
        THEN [res |-> IF vals[first].kind = "panic" THEN Panic
                      ELSE Err("decrypting value"),
              cs |-> <<>>]
        ELSE [res |-> Nil,
              cs |-> [i \in 1..Len(rows) |-> cookieOf(rows[i], vals[i].v)]]

\* chromedb writeCookie: the rows afterwards, and the error; the table is
\* UNIQUE (host_key, name, path), so a row that would collide with another
\* one is refused
chromeWriteCookie(rows, key, c) ==
    LET collides ==
            \E i \in 1..Len(rows) :
                /\ rows[i].rowid # c.rowID
                /\ rows[i].host_key = c.C.Domain
                /\ rows[i].name = c.C.Name
                /\ rows[i].path = c.C.Path
        columns(row) ==
            [row EXCEPT !.name = c.C.Name, !.host_key = c.C.Domain,
                        !.path = c.C.Path,
                        !.expires_utc = timeToTimestamp(c.C.Expires),
                        !.creation_utc = timeToTimestamp(c.C.Created),
                        !.is_secure = boolToInt(c.C.Secure),
                        !.is_httponly = boolToInt(c.C.HTTPOnly),
                        !.samesite = chromedbEncodeSitePolicy(c.C.SameSite)]
        set(row) ==
            IF row.rowid # c.rowID THEN row
            ELSE IF Len(key) = 0
            THEN [columns(row) EXCEPT !.value = c.C.Value]
            ELSE [columns(row) EXCEPT
                      !.encrypted_value = encryptValue(key, c.C.Value).v]
    IN  IF Len(key) # 0 /\ ~validKey(key)
        THEN [rows |-> rows, res |-> Err("encrypting value")]
        ELSE IF collides
        THEN [rows |-> rows, res |-> Err("constraint failed")]
        ELSE [rows |-> [i \in 1..Len(rows) |-> set(rows[i])], res |-> Nil]

\* the rows without the one with this rowid, in order
RECURSIVE deleteRow(_, _)
deleteRow(rows, id) ==
    IF rows = <<>> THEN <<>>
    ELSE IF Head(rows).rowid = id THEN deleteRow(Tail(rows), id)
    ELSE <<Head(rows)>> \o deleteRow(Tail(rows), id)

\* chromedb dropCookie
chromeDropCookie(rows, c) == [rows |-> deleteRow(rows, c.rowID), res |-> Nil]

\* one turn of the loop of chromedb Scan: st is [rows, calls, res]
chromeScanCookie(st, key, c, step) ==
    LET tmp == IF step.edit THEN [c EXCEPT !.C = edited(c.C, step)] ELSE c
        called == [st EXCEPT !.calls = Append(@, [c |-> c.C, id |-> c.rowID])]
        wrote(w) == [called EXCEPT !.rows = w.rows, !.res = w.res]
    IN  IF step.err THEN [called EXCEPT !.res = Err("callback")]
        ELSE IF step.act = Keep THEN called
        ELSE IF step.act = Update THEN wrote(chromeWriteCookie(st.rows, key, tmp))
        ELSE IF step.act = Discard THEN wrote(chromeDropCookie(st.rows, tmp))
        ELSE [called EXCEPT !.res = Err("unknown action")]

RECURSIVE chromeScanLoop(_, _, _, _, _)
chromeScanLoop(cs, i, key, sc, st) ==
    LET go(r) == IF r.res # Nil THEN r ELSE chromeScanLoop(cs, i + 1, key, sc, r)
    IN  IF i > Len(cs) THEN st
        ELSE go(chromeScanCookie(st, key, cs[i], stepAt(sc, i)))

\* a Scan with no transaction: what was written stays written
chromeScanNoRollback(st, sc) ==
    LET done(r) ==
            [store |-> [st EXCEPT !.rows = r.rows], calls |-> r.calls, res |-> r.res]
        read(rd) ==
            IF rd.res # Nil THEN [store |-> st, calls |-> <<>>, res |-> rd.res]
            ELSE done(chromeScanLoop(rd.cs, 1, st.key, sc,
                          [rows |-> st.rows, calls |-> <<>>, res |-> Nil]))
    IN  read(chromeReadCookies(st.rows, st.key))

\* chromedb Store.Scan: the transaction is committed when Scan returns nil
\* and rolled back otherwise
chromeScan(st, sc) ==
    LET done(r) ==
            [store |-> IF r.res = Nil THEN [st EXCEPT !.rows = r.rows] ELSE st,
             calls |-> r.calls, res |-> r.res]
        read(rd) ==
            IF rd.res # Nil THEN [store |-> st, calls |-> <<>>, res |-> rd.res]
            ELSE done(chromeScanLoop(rd.cs, 1, st.key, sc,
                          [rows |-> st.rows, calls |-> <<>>, res |-> Nil]))
    IN  read(chromeReadCookies(st.rows, st.key))

\* firefox readCookies
firefoxCookie(row) ==
    [C |-> [Name |-> row.name, Value |-> row.value, Domain |-> row.host,
            Path |-> row.path,
            Expires |-> [sec |-> row.expiry, nsec |-> 0],
            Created |-> [sec |-> row.creationTime.unix,
                         nsec |-> row.creationTime.micro * 1000],
            Secure |-> row.isSecure # 0, HTTPOnly |-> row.isHttpOnly # 0,
            SameSite |-> firefoxDecodeSitePolicy(row.sameSite)],
     rowID |-> row.rowid]

\* firefox writeCookie
firefoxWriteCookie(rows, c) ==
    LET set(row) ==
            IF row.rowid # c.rowID THEN row
            ELSE [row EXCEPT !.name = c.C.Name, !.value = c.C.Value,
                             !.host = c.C.Domain, !.path = c.C.Path,
                             !.expiry = c.C.Expires.sec,
                             !.creationTime = [unix |-> c.C.Created.sec,
                                               micro |-> c.C.Created.nsec \div 1000],
                             !.isSecure = boolToInt(c.C.Secure),
                             !.isHttpOnly = boolToInt(c.C.HTTPOnly),
                             !.sameSite = firefoxEncodeSitePolicy(c.C.SameSite)]
    IN  [rows |-> [i \in 1..Len(rows) |-> set(rows[i])], res |-> Nil]

\* firefox dropCookie
firefoxDropCookie(rows, c) == [rows |-> deleteRow(rows, c.rowID), res |-> Nil]

\* a loop that takes no notice of what the callback returns
firefoxScanCookieDeaf(st, c, step) ==
    [st EXCEPT !.calls = Append(@, [c |-> c.C, id |-> c.rowID])]

\* one turn of the loop of firefox Scan
firefoxScanCookie(st, c, step) ==
    LET tmp == IF step.edit THEN [c EXCEPT !.C = edited(c.C, step)] ELSE c
        called == [st EXCEPT !.calls = Append(@, [c |-> c.C, id |-> c.rowID])]
        wrote(w) == [called EXCEPT !.rows = w.rows, !.res = w.res]
    IN  IF step.err THEN [called EXCEPT !.res = Err("callback")]
        ELSE IF step.act = Keep THEN called
        ELSE IF step.act = Update THEN wrote(firefoxWriteCookie(st.rows, tmp))
        ELSE IF step.act = Discard THEN wrote(firefoxDropCookie(st.rows, tmp))
        ELSE [called EXCEPT !.res = Err("unknown action")]

RECURSIVE firefoxScanLoop(_, _, _, _)
firefoxScanLoop(cs, i, sc, st) ==
    LET go(r) == IF r.res # Nil THEN r ELSE firefoxScanLoop(cs, i + 1, sc, r)
    IN  IF i > Len(cs) THEN st
        ELSE go(firefoxScanCookie(st, cs[i], stepAt(sc, i)))

\* firefox Store.Scan: tx.Commit() at the end, the deferred tx.Rollback()
\* otherwise
firefoxScan(st, sc) ==
    LET done(r) ==
            [store |-> IF r.res = Nil THEN [st EXCEPT !.rows = r.rows] ELSE st,
             calls |-> r.calls, res |-> r.res]
    IN  done(firefoxScanLoop([i \in 1..Len(st.rows) |-> firefoxCookie(st.rows[i])],
                             1, sc, [rows |-> st.rows, calls |-> <<>>, res |-> Nil]))

\* crypto/sha256 is not part of the repository and the code never calls
\* it; the digest Chrome puts before a value is modelled by 32 bytes that
\* depend on every byte of the domain
sha256(bs) == [i \in 1..32 |-> (sumOf(bs) * i + 7 * i + Len(bs)) % 256]

\* the version of the database, in its meta table, from which on Chrome
\* binds an encrypted value to its domain
bindingVersion == 24

\* a row of the cookies table of Chrome, of host ".a.b": "plain" has a
\* value and no encrypted value; the others have the value "sec" encrypted
\* under the first key, "bound" with the digest of the row's own domain
\* before it, "other" with the digest of the domain ".c", "bare" with none
chromeRow(id, binding) ==
    LET host == <<46, 97, 46, 98>>
        secret == <<115, 101, 99>>
        payload == IF binding = "bound" THEN sha256(host) \o secret
                   ELSE IF binding = "other" THEN sha256(<<46, 99>>) \o secret
                   ELSE secret
    IN  [rowid |-> id,
         name |-> IF binding = "plain" THEN <<112>> ELSE <<101>>,
         value |-> IF binding = "plain" THEN <<111, 108, 100>> ELSE <<>>,
         encrypted_value |-> IF binding = "plain" THEN <<>>
                             ELSE encryptValue(Keys[1], payload).v,
         host_key |-> host, path |-> <<47>>,
         expires_utc |-> [unix |-> macEpoch + 60, micro |-> 250000],
         creation_utc |-> [unix |-> macEpoch, micro |-> 0],
         is_secure |-> 1, is_httponly |-> 0, samesite |-> -1]

\* the Stores scanned.  Chrome databases of a version before the binding
\* and of the first one with it, opened with no key, the key of the values
\* and another key; a database before the binding holds bare payloads
\* only.  A Firefox database of two rows.  Binary cookie files of one page
\* and of two.
Stores ==
    LET bindings(version) ==
            IF version >= bindingVersion THEN {"bound", "bare", "other"}
            ELSE {"bare"}
        firefoxRow(id, name, value) ==
            [rowid |-> id, name |-> name, value |-> value,
             host |-> <<46, 97, 46, 98>>, path |-> <<47>>,
             expiry |-> macEpoch + 60,
             creationTime |-> [unix |-> macEpoch, micro |-> 7],
             isSecure |-> 0, isHttpOnly |-> 1, sameSite |-> 1]
    IN  UNION {
            {[kind |-> "chromedb", pages |-> <<>>, dirty |-> FALSE, rows |-> rows,
              key |-> key, version |-> version] :
                key \in {<<>>, Keys[1], Keys[2]},
                rows \in {<<chromeRow(1, "plain"), chromeRow(2, b)>> :
                              b \in bindings(version)}
                         \cup {<<chromeRow(1, b), chromeRow(2, "plain")>> :
                                   b \in bindings(version)}} :
            version \in {23, 24}}
        \cup {[kind |-> "firefox", pages |-> <<>>, dirty |-> FALSE,
               rows |-> <<firefoxRow(1, <<112>>, <<111, 108, 100>>),
                          firefoxRow(2, <<113>>, <<>>)>>,
               key |-> <<>>, version |-> 0]}
        \cup {[kind |-> "bincookie", pages |-> pagesOf(1, sizes),
               dirty |-> FALSE, rows |-> <<>>, key |-> <<>>, version |-> 0] :
                  sizes \in {<<MaxScan>>, <<1, MaxScan - 1>>, <<MaxScan - 1, 1>>, <<1>>}}

\* the callbacks of n calls: what a callback may do at one call
Scripts(n) ==
    [1..n -> {Step(TRUE, NewValue, Keep, FALSE),
              Step(TRUE, NewValue, Update, FALSE),
              Step(TRUE, <<>>, Update, FALSE),
              Step(FALSE, <<>>, Discard, FALSE),
              Step(FALSE, <<>>, 0, FALSE),
              Step(FALSE, <<>>, 4, FALSE),
              Step(FALSE, <<>>, 0, TRUE)}]

\* the cookies of a Store
cookieTotal(pages) == sumOf([i \in 1..Len(pages) |-> Len(pages[i].Cookies)])

StoreInit ==
    /\ store \in Stores
    /\ prev = [kind |-> "none"]
    /\ script = <<>>
    /\ calls = <<>>
    /\ ret = NoResult
    /\ disk = <<>>
    /\ commit = [n |-> 0, res |-> NoResult, io |-> "none"]
    /\ op = "init"
    /\ Idle("store")

\* the Store afterwards, the calls and the result of s.Scan(f)
scanned(r) ==
    /\ r.res # Panic
    /\ store' = r.store
    /\ calls' = r.calls
    /\ ret' = r.res

\* bincookie: err := s.Scan(f), f following the script sc
BincookieScan(sc) ==
    /\ op \in {"init", "Commit"}
    /\ prev.kind = "none"
    /\ store.kind = "bincookie"
    /\ scanned(bincookieScan(store, sc))
    /\ prev' = store
    /\ script' = sc
    /\ op' = "Scan"
    /\ UNCHANGED <<disk, commit, codecVars, siteVars, cryptVars, plistVars, wash>>

\* chromedb: err := s.Scan(f)
ChromeScan(sc) ==
    /\ op = "init"
    /\ store.kind = "chromedb"
    /\ scanned(chromeScan(store, sc))
    /\ prev' = store
    /\ script' = sc
    /\ op' = "Scan"
    /\ UNCHANGED <<disk, commit, codecVars, siteVars, cryptVars, plistVars, wash>>

\* firefox: err := s.Scan(f)
FirefoxScan(sc) ==
    /\ op = "init"
    /\ store.kind = "firefox"
    /\ scanned(firefoxScan(store, sc))
    /\ prev' = store
    /\ script' = sc
    /\ op' = "Scan"
    /\ UNCHANGED <<disk, commit, codecVars, siteVars, cryptVars, plistVars, wash>>

\* after a Scan that returned nil, a Scan on the same Store whose callback
\* keeps every cookie; prev and script stay those of the Scan before
Rescan ==
    /\ op = "Scan"
    /\ ret = Nil
    /\ scanned(IF store.kind = "bincookie" THEN bincookieScan(store, <<>>)
               ELSE IF store.kind = "chromedb" THEN chromeScan(store, <<>>)
               ELSE firefoxScan(store, <<>>))
    /\ op' = "Rescan"
    /\ UNCHANGED <<prev, script, disk, commit, codecVars, siteVars, cryptVars, plistVars, wash>>

\* bincookie: err := s.Commit().  io says how the file system answers when
\* Commit turns to it: "ok", or an error from atomicfile.New ("new") or
\* from Close ("close")
Commit(io) ==
    LET done(r) ==
            /\ store' = r.store
            /\ disk' = IF r.wrote THEN r.out ELSE disk
            /\ commit' = [n |-> commit.n + 1, res |-> r.res,
                          io |-> IF store.dirty THEN io ELSE "none"]
    IN  /\ store.kind = "bincookie"
        /\ commit.n < MaxCommits
        /\ done(bincookieCommit(store, io))
        /\ op' = "Commit"
        /\ UNCHANGED <<prev, script, calls, ret, codecVars, siteVars, cryptVars, plistVars, wash>>

StoreNext ==
    \/ \E sc \in Scripts(cookieTotal(store.pages)) : BincookieScan(sc)
    \* the callbacks of the scripts, and callbacks that set a Value and
    \* answer Update at the first call, and at the second give the cookie
    \* the Name nm and answer Update
    \/ \E sc \in Scripts(Len(store.rows))
                  \cup {<<Step(TRUE, NewValue, Update, FALSE),
                          [Step(TRUE, NewValue, Update, FALSE) EXCEPT !.name = nm]>> :
                            nm \in {<<112>>, <<101>>}} :
          ChromeScan(sc)
    \/ \E sc \in Scripts(Len(store.rows)) : FirefoxScan(sc)
    \/ Rescan
    \/ \E io \in {"ok", "new", "close"} : Commit(io)

SpecStores == StoreInit /\ [][StoreNext]_vars

---------------------------------------------------------------------------
(* Properties of the Stores, checked on SpecStores. *)

\* row i of the Store the Scan started from holds an encrypted value
IsEncrypted(row) == row.value = <<>> /\ Len(row.encrypted_value) # 0

\* C14 as stated: on a database of version 24 or later, reading an
\* encrypted value verifies that the decrypted payload begins with the
\* SHA-256 digest of the row's domain: the Scan fails when it does not, and
\* the cookie is presented with the value after the digest when it does.
\* On an earlier version the decrypted payload is the value.
DomainBindingVerified ==
    (op = "Scan" /\ prev.kind = "chromedb" /\ Len(prev.key) # 0) =>
        \A i \in 1..Len(prev.rows) :
            LET row == prev.rows[i]
                d == decryptValue(prev.key, row.encrypted_value).res
            IN  (IsEncrypted(row) /\ d.kind = "ok") =>
                    IF prev.version < bindingVersion
                    THEN i <= Len(calls) => calls[i].c.Value = d.v
                    ELSE IF HasPrefix(d.v, sha256(row.host_key))
                    THEN i <= Len(calls)
                            => calls[i].c.Value = SubSeq(d.v, 33, Len(d.v))
                    ELSE ret.kind = "error" /\ calls = <<>>

\* the positions of 1..n whose step lets the cookie stay, in order
keptIndexes(n, base) ==
    LET S == {j \in 1..n : script[base + j].act \in {Keep, Update}}
    IN  [m \in 1..Cardinality(S) |->
            CHOOSE j \in S : Cardinality({i \in S : i < j}) = m - 1]

\* r is what the step leaves of the stored cookie c
LeftBy(r, c, step) ==
    IF step.act = Update /\ step.edit
    THEN /\ r.Value = step.value
         /\ r.Name = c.Name /\ r.URL = c.URL /\ r.Path = c.Path
         /\ r.Expires = c.Expires /\ r.Created = c.Created
    ELSE r = c

\* C18: after a bincookie Scan that returns nil, every page holds, in
\* their order, exactly the cookies answered Keep or Update: one answered
\* Keep is the stored cookie as it was, whatever the callback set through
\* its editor; one answered Update has the Value the callback set; one
\* answered Discard is gone.
ScanAppliesActions ==
    (op = "Scan" /\ prev.kind = "bincookie" /\ ret = Nil) =>
        /\ Len(store.pages) = Len(prev.pages)
        /\ \A k \in 1..Len(prev.pages) :
              LET cs == prev.pages[k].Cookies
                  base == cookieTotal(SubSeq(prev.pages, 1, k - 1))
                  idx == keptIndexes(Len(cs), base)
                  out == store.pages[k].Cookies
              IN  /\ Len(out) = Len(idx)
                  /\ \A m \in 1..Len(idx) :
                        LeftBy(out[m], cs[idx[m]], script[base + idx[m]])

\* C18 witness: a page of three cookies; the callback set a Value and
\* answered Keep for the first, set a Value and answered Update for the
\* second, answered Discard for the third
ScanAppliesActionsWitness ==
    /\ op = "Scan" /\ prev.kind = "bincookie" /\ ret = Nil
    /\ Len(prev.pages) = 1 /\ Len(script) = 3
    /\ script[1] = Step(TRUE, NewValue, Keep, FALSE)
    /\ script[2] = Step(TRUE, NewValue, Update, FALSE)
    /\ script[3].act = Discard
    /\ Len(store.pages[1].Cookies) = 2
    /\ store.pages[1].Cookies[1] = prev.pages[1].Cookies[1]
    /\ store.pages[1].Cookies[2].Value = NewValue

\* the calls at which the callback of the script fails: it returns an
\* error, or an Action that is not Keep, Update or Discard
Failing == {i \in 1..Len(script) : script[i].err \/ script[i].act \notin {Keep, Update, Discard}}
FirstFailing == CHOOSE i \in Failing : \A j \in Failing : i <= j

\* C19: in each of the three Stores, when the callback fails at a call,
\* Scan does not call it again and returns an error, the callback's own
\* when it returned one.
ScanStopsAtFailure ==
    (op = "Scan" /\ Failing # {} /\ Len(calls) >= FirstFailing) =>
        /\ Len(calls) = FirstFailing
        /\ ret.kind = "error"
        /\ script[FirstFailing].err => ret = Err("callback")

\* C19 witness: a firefox Scan of two rows whose callback returned the
\* zero Action at its first call
ScanStopsAtFailureWitness ==
    /\ op = "Scan" /\ prev.kind = "firefox"
    /\ Len(prev.rows) = 2
    /\ script[1] = Step(FALSE, <<>>, 0, FALSE)
    /\ Len(calls) = 1
    /\ ret = Err("unknown action")

\* C20 as stated: in the Chrome store, whatever the row holds and whether
\* or not the Store has a key, after a Scan whose callback set the Value
\* of a cookie to v and answered Update, the next Scan presents that
\* cookie with the Value v.
UpdatePersists ==
    (op = "Rescan" /\ prev.kind = "chromedb") =>
        /\ ret = Nil
        /\ \A i \in 1..Len(script) :
              (script[i].act = Update /\ script[i].edit) =>
                  \E j \in 1..Len(calls) :
                      /\ calls[j].id = prev.rows[i].rowid
                      /\ calls[j].c.Value = script[i].value


\* C29: Cookie.Set changes only bit 0, bit 2 and bits 3-5 of Flags: after
\* a bincookie Scan that returns nil, a cookie the callback edited through
\* Set and answered Update has bit 1 and the bits from 6 upward of its
\* Flags, and its two reserved fields, as they were before.
SetKeepsOtherBits ==
    (op = "Scan" /\ prev.kind = "bincookie" /\ ret = Nil) =>
        \A k \in 1..Len(prev.pages) :
            LET cs == prev.pages[k].Cookies
                base == cookieTotal(SubSeq(prev.pages, 1, k - 1))
                idx == keptIndexes(Len(cs), base)
                out == store.pages[k].Cookies
            IN  \A m \in 1..Len(idx) :
                    (script[base + idx[m]].act = Update /\ script[base + idx[m]].edit) =>
                        /\ out[m].Flags[1] = cs[idx[m]].Flags[1]
                        /\ out[m].Flags[2] \div 64 = cs[idx[m]].Flags[2] \div 64
                        /\ (out[m].Flags[2] \div 2) % 2 = (cs[idx[m]].Flags[2] \div 2) % 2
                        /\ out[m].unknown1 = cs[idx[m]].unknown1
                        /\ out[m].unknown2 = cs[idx[m]].unknown2


\* C28: when the callback of a bincookie Scan fails on a cookie of page k,
\* page k and every later page hold the cookies they held before the
\* Scan; every page before k holds the cookies answered Keep or Update,
\* as edited; and the Store is dirty if one of the cookies of those pages
\* was answered Update or Discard.
FailedScanKeepsLaterPages ==
    (op = "Scan" /\ prev.kind = "bincookie" /\ ret.kind = "error") =>
        LET base(j) == cookieTotal(SubSeq(prev.pages, 1, j - 1))
            k == CHOOSE j \in 1..Len(prev.pages) :
                     base(j) < FirstFailing /\ FirstFailing <= base(j + 1)
        IN  /\ Failing # {}
            /\ Len(store.pages) = Len(prev.pages)
            /\ \A j \in k..Len(prev.pages) : store.pages[j] = prev.pages[j]
            /\ \A j \in 1..(k - 1) :
                  LET cs == prev.pages[j].Cookies
                      idx == keptIndexes(Len(cs), base(j))
                      out == store.pages[j].Cookies
                  IN  /\ Len(out) = Len(idx)
                      /\ \A m \in 1..Len(idx) :
                            LeftBy(out[m], cs[idx[m]], script[base(j) + idx[m]])
            /\ (\E i \in 1..base(k) : script[i].act \in {Update, Discard})
                  => store.dirty

\* C28 witness: a Store of a page of one cookie and a page of two; the
\* callback answered Discard for the first cookie, set a Value and
\* answered Update for the second, and returned an error for the third:
\* the first page is empty, the second holds its two cookies as before
FailedScanKeepsLaterPagesWitness ==
    /\ op = "Scan" /\ prev.kind = "bincookie" /\ ret = Err("callback")
    /\ Len(prev.pages) = 2 /\ Len(prev.pages[1].Cookies) = 1
    /\ script[1].act = Discard
    /\ script[2] = Step(TRUE, NewValue, Update, FALSE)
    /\ script[3].err
    /\ store.pages[1].Cookies = <<>>
    /\ store.pages[2] = prev.pages[2]
    /\ Len(store.pages[2].Cookies) = 2
    /\ store.dirty


\* a callback of an earlier Scan returned Update or Discard to the Store
Touched ==
    \E i \in 1..Len(script) :
        /\ Failing = {} \/ i < FirstFailing
        /\ script[i].act \in {Update, Discard}

\* C27: at every Commit of a bincookie Store, in any sequence of Scan and
\* Commit calls: when no callback of an earlier Scan returned Update or
\* Discard, the file at the path is not written and Commit returns nil;
\* when one did, Commit writes the file (and returns nil) unless the file
\* system refuses, and then it returns the error.
CommitOnlyWhenDirty ==
    (op = "Commit") =>
        /\ ~Touched => (disk = <<>> /\ commit.res = Nil)
        /\ (Touched /\ commit.io = "ok") =>
              /\ commit.res = Nil
              /\ HasPrefix(disk, fileMagic)
              /\ pageCount(disk) = Len(store.pages)
        /\ (Touched /\ commit.io # "ok") => commit.res.kind = "error"

\* C27 witness: a Commit before any Scan wrote nothing; then a Scan whose
\* callback answered Discard once and Keep otherwise; then a second Commit
\* wrote the file
CommitOnlyWhenDirtyWitness ==
    /\ op = "Commit" /\ commit.n = 2 /\ commit.io = "ok"
    /\ prev.kind = "bincookie" /\ ret = Nil
    /\ Len(script) = 3
    /\ script[1].act = Keep /\ script[2].act = Discard /\ script[3].act = Keep
    /\ disk # <<>>
    /\ commit.res = Nil


---------------------------------------------------------------------------
(* washcookies: the rules of a configuration and the callback main gives   *)
(* to Scan.  Strings are sequences of bytes; a Clause is [Field, Op, Arg], *)
(* a Rule is [Tag, Clauses].                                               *)

\* most rules of a configuration
MaxRules == 2

\* config domainMatch
domainMatch(domain, pattern) ==
    LET ToLower(bs) ==
            [i \in 1..Len(bs) |-> IF bs[i] \in 65..90 THEN bs[i] + 32 ELSE bs[i]]
        d == ToLower(domain)
        p == ToLower(pattern)
        HasSuffix(bs, suffix) ==
            Len(bs) >= Len(suffix)
            /\ SubSeq(bs, Len(bs) - Len(suffix) + 1, Len(bs)) = suffix
    IN  IF HasPrefix(p, <<46>>) THEN d = Tail(p) \/ HasSuffix(d, p)
        ELSE d = p

\* config Clause.Match, with fieldValue.  The operators are "=" (61), "?"
\* (63), "~" (126) and "@" (64), after "!" (33) or not.  The regular
\* expressions of the model have no operator of their own, and such an
\* expression matches the strings that contain it.
ClauseMatch(c, ck) ==
    LET needle == IF c.Field \in {"name", "value", "domain", "path"}
                  THEN ck[c.Field] ELSE <<>>
        \* op := strings.TrimPrefix(c.Op, "!")
        bare == IF HasPrefix(c.Op, <<33>>) THEN Tail(c.Op) ELSE c.Op
        want == bare = c.Op
        MatchString(expr, bs) ==
            \E i \in 0..(Len(bs) - Len(expr)) :
                SubSeq(bs, i + 1, i + Len(expr)) = expr
    IN  CASE bare = <<61>> -> (needle = c.Arg) = want
          [] bare = <<63>> -> (needle # <<>>) = want
          [] bare = <<126>> -> MatchString(c.Arg, needle) = want
          [] bare = <<64>> -> domainMatch(needle, c.Arg) = want

\* config Config.Match, with Rule.Match: the rules all of whose clauses
\* match the cookie, in their order
RECURSIVE ConfigMatch(_, _)
ConfigMatch(rules, ck) ==
    LET RuleMatch(r) == \A i \in 1..Len(r.Clauses) : ClauseMatch(r.Clauses[i], ck)
    IN  IF rules = <<>> THEN <<>>
        ELSE IF RuleMatch(Head(rules))
        THEN <<Head(rules)>> \o ConfigMatch(Tail(rules), ck)
        ELSE ConfigMatch(Tail(rules), ck)

\* a callback that goes by the first rule that matches
callbackFirstRule(matched, dry) ==
    IF matched # <<>> /\ Head(matched).Tag # "-"
    THEN [act |-> Keep, kept |-> 1, discarded |-> 0]
    ELSE [act |-> IF dry THEN Keep ELSE Discard, kept |-> 0, discarded |-> 1]

\* the function main gives to Scan, for the rules that match the cookie:
\* the Action it returns and what it adds to nKept and nDiscarded.  The
\* loop over the rules returns at the first "!" rule.
callback(matched, dry) ==
    LET keeps == {i \in 1..Len(matched) : matched[i].Tag = "!"}
        deny == \E i \in 1..Len(matched) : matched[i].Tag = "-"
        allow == \E i \in 1..Len(matched) : matched[i].Tag = "+"
    IN  IF keeps # {} THEN [act |-> Keep, kept |-> 1, discarded |-> 0]
        ELSE IF deny \/ ~allow
        THEN [act |-> IF dry THEN Keep ELSE Discard, kept |-> 0, discarded |-> 1]
        ELSE [act |-> Keep, kept |-> 1, discarded |-> 0]

\* a configuration of up to MaxRules rules, a cookie of the store, and the
\* -dry-run flag.  The names are "sid" and "SID", the domains "a.b" and
\* "x.A.b", the paths "/" and "/adm", the values "" and "v".
WashInit ==
    LET Clause(field, o, arg) == [Field |-> field, Op |-> o, Arg |-> arg]
        Rule(tag, clauses) == [Tag |-> tag, Clauses |-> clauses]
        pool == {Rule("+", <<Clause("name", <<61>>, <<83, 73, 68>>)>>),
                 Rule("+", <<Clause("domain", <<64>>, <<46, 97, 46, 98>>),
                             Clause("value", <<33, 63>>, <<>>)>>),
                 Rule("-", <<Clause("name", <<33, 61>>, <<115, 105, 100>>)>>),
                 Rule("-", <<Clause("path", <<126>>, <<97, 100, 109>>)>>),
                 Rule("!", <<Clause("domain", <<33, 64>>, <<97, 46, 98>>),
                             Clause("value", <<63>>, <<>>)>>),
                 Rule("!", <<Clause("path", <<33, 126>>, <<97, 100, 109>>),
                             Clause("name", <<61>>, <<115, 105, 100>>)>>)}
    IN  /\ \E n \in 0..MaxRules, dry \in BOOLEAN :
           \E rules \in [1..n -> pool],
              name \in {<<115, 105, 100>>, <<83, 73, 68>>},
              domain \in {<<97, 46, 98>>, <<120, 46, 65, 46, 98>>},
              path \in {<<47>>, <<47, 97, 100, 109>>},
              value \in {<<>>, <<118>>} :
                wash = [rules |-> rules, dry |-> dry,
                        ck |-> [name |-> name, domain |-> domain,
                                path |-> path, value |-> value],
                        res |-> NoResult]
        /\ op = "init"
        /\ Idle("wash")

\* Scan calls the function of main on the cookie
WashScan ==
    /\ op = "init"
    /\ wash' = [wash EXCEPT !.res = callback(ConfigMatch(wash.rules, wash.ck), wash.dry)]
    /\ op' = "Scan"
    /\ UNCHANGED <<codecVars, siteVars, cryptVars, plistVars, storeVars>>

SpecWash == WashInit /\ [][WashScan]_vars

---------------------------------------------------------------------------
(* Properties of washcookies, checked on SpecWash. *)

\* the rules of the configuration that match the cookie, as a set
Matching == {wash.rules[i] : i \in {j \in 1..Len(wash.rules) :
                 \A k \in 1..Len(wash.rules[j].Clauses) :
                     ClauseMatch(wash.rules[j].Clauses[k], wash.ck)}}

\* what the policy says of the cookie: kept when a "!" rule matches; if
\* none does, discarded when a "-" rule matches; if none does, discarded
\* when no "+" rule matches; kept otherwise
Retained ==
    \/ \E r \in Matching : r.Tag = "!"
    \/ /\ \A r \in Matching : r.Tag # "-"
       /\ \E r \in Matching : r.Tag = "+"

\* the rules in every order
Orders ==
    {[i \in 1..Len(wash.rules) |-> wash.rules[p[i]]] :
        p \in {q \in [1..Len(wash.rules) -> 1..Len(wash.rules)] :
                  \A i, j \in 1..Len(wash.rules) : q[i] = q[j] => i = j}}

\* C21 as stated: the callback returns Keep for a cookie the policy
\* retains and Discard for every other cookie, whatever the order of the
\* rules.
PolicyDecides ==
    (op = "Scan" /\ wash.res # NoResult) =>
        /\ wash.res.act = (IF Retained THEN Keep ELSE Discard)
        /\ \A rules \in Orders :
              callback(ConfigMatch(rules, wash.ck), wash.dry) = wash.res

\* C21 amended: the callback counts a cookie as kept when the policy
\* retains it and as discarded otherwise, whatever the order of the rules.
\* It returns Keep for a cookie it counts as kept.  For a cookie it counts
\* as discarded it returns Discard, unless the program runs with -dry-run:
\* then it returns Keep for every cookie and the store is left as it is.
PolicyDecidesUnlessDryRun ==
    (op = "Scan" /\ wash.res # NoResult) =>
        /\ wash.res.kept = (IF Retained THEN 1 ELSE 0)
        /\ wash.res.discarded = 1 - wash.res.kept
        /\ wash.res.act = (IF Retained \/ wash.dry THEN Keep ELSE Discard)
        /\ \A rules \in Orders :
              callback(ConfigMatch(rules, wash.ck), wash.dry) = wash.res

\* C21 witness: an Allow rule and then a Deny rule both match the cookie
\* and no Keep rule does; without -dry-run the callback returned Discard
PolicyDecidesUnlessDryRunWitness ==
    /\ op = "Scan" /\ ~wash.dry
    /\ Len(wash.rules) = 2
    /\ wash.rules[1].Tag = "+" /\ wash.rules[2].Tag = "-"
    /\ Cardinality(Matching) = 2
    /\ wash.res = [act |-> Discard, kept |-> 0, discarded |-> 1]

\* the bytes with the upper-case letters of ASCII made lower-case
Lower(bs) == [i \in 1..Len(bs) |-> IF bs[i] \in 65..90 THEN bs[i] + 32 ELSE bs[i]]

\* C22 as stated: a clause with the operator "=" matches exactly when the
\* field of the cookie and the argument are equal with case ignored, and a
\* clause whose operator has "!" before it matches exactly when the clause
\* without the "!" does not.
EqualsFoldsCase ==
    (op = "Scan") =>
        \A i \in 1..Len(wash.rules) :
            \A k \in 1..Len(wash.rules[i].Clauses) :
                LET c == wash.rules[i].Clauses[k]
                IN  /\ c.Op = <<61>> =>
                          (ClauseMatch(c, wash.ck)
                              <=> Lower(wash.ck[c.Field]) = Lower(c.Arg))
                    /\ HasPrefix(c.Op, <<33>>) =>
                          (ClauseMatch(c, wash.ck)
                              <=> ~ClauseMatch([c EXCEPT !.Op = Tail(@)], wash.ck))

====
